---- MODULE Spec2Model ----
(***************************************************************************)
(* A model of the log-ingestion engine of claude_monitor.insights          *)
(* (base.py: SessionData, LogLoader) and of the anomaly rules built on it  *)
(* (anomaly_detector.py: AnomalyDetector).                                 *)
(*                                                                         *)
(* Representation.                                                         *)
(*  - A Python str is a sequence of symbols: a symbol stands for one       *)
(*    character, or for a block of characters that the code never splits   *)
(*    (a whole date "YYYY-MM-DD" is the symbol "D1"). `a in b` on strings   *)
(*    is contiguous containment, f"{a}:{b}" is concatenation.              *)
(*  - A Python dict is a sequence of [k, v] records in insertion order.    *)
(*  - None and the empty string are both falsy; an absent id is <<>>.      *)
(*  - cost is a number of micro-dollars (5.0 dollars = 5000000).           *)
(***************************************************************************)
EXTENDS Integers, Sequences, FiniteSets, TLC

VARIABLES
    files,         \* the data root as listed: <<[project, name, lines]>> in iterdir/glob order
    entry_filter,  \* the entry_filter argument of the iter_sessions calls
    hashes,        \* LogLoader._processed_hashes
    active,        \* the generator whose body is running (0: none, the caller runs)
    gen,           \* gen[i]: the frame of the i-th iter_sessions generator
    out,           \* out[i]: the sessions the i-th generator has yielded, in order
    log,           \* log[i]: the lines the i-th generator has read, and whether the read
                   \* raised the error that line 162 reports (history)
    overlap,       \* overlap[i]: another generator ran while the i-th was under way (history)
    anomalies,     \* AnomalyDetector.anomalies
    acc,           \* acc[i]: the locals of the i-th AnomalyDetector.analyze call
    result,        \* result[i]: the document the i-th analyze call returned
    probe          \* the session handed to _detect_session_anomalies on its own

vars == <<files, entry_filter, hashes, active, gen, out, log, overlap, anomalies, acc, result, probe>>

----------------------------------------------------------------------------
(* Bounds of the model.                                                    *)

\* lines in the whole data root
MaxLines == 3
\* calls of iter_sessions (of analyze) on one loader
NumCalls == 2
\* largest call count of one tool in a session handed to the rules
MaxToolCalls == 62

----------------------------------------------------------------------------
(* Python values.                                                          *)

Min(a, b) == IF a < b THEN a ELSE b

\* the falsy "no string": None or ''
NoStr == <<>>

\* a in b, for strings
StrContains(b, a) ==
    \E k \in 0..(Len(b) - Len(a)) : SubSeq(b, k + 1, k + Len(a)) = a

\* s[:n]
StrPrefix(s, n) == SubSeq(s, 1, Min(Len(s), n))

\* x or y, for strings
StrOr(x, y) == IF x # NoStr THEN x ELSE y

\* d.get(k, default)
DictGet(d, k, default) ==
    IF \E j \in 1..Len(d) : d[j].k = k
    THEN (d[CHOOSE j \in 1..Len(d) : d[j].k = k]).v
    ELSE default

\* d[k] += 1 on a defaultdict(int)
DictInc(d, k) ==
    IF \E j \in 1..Len(d) : d[j].k = k
    THEN [j \in 1..Len(d) |-> IF d[j].k = k THEN [k |-> k, v |-> d[j].v + 1] ELSE d[j]]
    ELSE Append(d, [k |-> k, v |-> 1])

DictKeys(d) == {d[j].k : j \in 1..Len(d)}

RECURSIVE SumSeq(_)
SumSeq(s) == IF s = <<>> THEN 0 ELSE Head(s) + SumSeq(Tail(s))

----------------------------------------------------------------------------
(* Log records.  One line of a session file is malformed JSON ("bad"), a   *)
(* JSON value that is not an object ("nonobj": a list, a number, null) or  *)
(* an object ("entry").                                                    *)

Usage(i, o, r, c) ==
    [input_tokens |-> i, output_tokens |-> o,
     cache_read_input_tokens |-> r, cache_creation_input_tokens |-> c]

\* a content item: a tool invocation or a text part
ToolUse(name, skill, file_path) ==
    [type |-> "tool_use", name |-> name, skill |-> skill, file_path |-> file_path,
     path |-> "", text |-> NoStr]

TextPart(text) ==
    [type |-> "text", name |-> NoStr, skill |-> "", file_path |-> "", path |-> "",
     text |-> text]

\* message.content: a str, a list of items, or absent
ContentStr(text) == [shape |-> "str", text |-> text, items |-> <<>>]
ContentList(items) == [shape |-> "list", text |-> NoStr, items |-> items]
ContentAbsent == [shape |-> "absent", text |-> NoStr, items |-> <<>>]

Message(id, usage, content) ==
    [id |-> id, usage |-> usage, model |-> "claude-3-5-sonnet", content |-> content]

\* entry.get('message', {}) of an entry without the field
NoMessage == Message(NoStr, Usage(0, 0, 0, 0), ContentAbsent)

EntryLine(ts, type, message_id, requestId, has_message, message) ==
    [kind |-> "entry", timestamp |-> ts, type |-> type, message_id |-> message_id,
     requestId |-> requestId, request_id |-> NoStr,
     has_message |-> has_message, message |-> message]

BadLine ==
    [kind |-> "bad", timestamp |-> NoStr, type |-> "", message_id |-> NoStr,
     requestId |-> NoStr, request_id |-> NoStr,
     has_message |-> FALSE, message |-> NoMessage]

NonObjectLine == [BadLine EXCEPT !.kind = "nonobj"]

----------------------------------------------------------------------------
(* SessionData (base.py).                                                  *)

NoneMsg == [is_none |-> TRUE, text |-> NoStr]
SomeMsg(text) == [is_none |-> FALSE, text |-> text]

SessionData(session_id, project) ==
    [session_id |-> session_id, project |-> project,
     is_agent |-> (Len(session_id) > 0 /\ Head(session_id) = "agent-"),
     input_tokens |-> 0, output_tokens |-> 0, cache_read |-> 0, cache_create |-> 0,
     cost |-> 0,
     tool_calls |-> <<>>, file_ops |-> <<>>, mcp_calls |-> <<>>, skill_calls |-> <<>>,
     timestamps |-> <<>>, first_msg |-> NoneMsg, entries |-> <<>>]

total_tokens_without_cache_create(s) ==
    s.input_tokens + s.output_tokens + s.cache_read

total_tokens(s) ==
    s.input_tokens + s.output_tokens + s.cache_read + s.cache_create

----------------------------------------------------------------------------
(* LogLoader: the per-entry extraction (base.py).                          *)

\* PricingCalculator.calculate_cost: a pure, non-negative function of the model
\* and the four token counts, in micro-dollars (per-token rates of the default
\* model: 3, 15, 4 and 1 micro-dollars, rounded to whole micro-dollars)
calculate_cost(model, input_tokens, output_tokens, cache_creation_tokens, cache_read_tokens) ==
    3 * input_tokens + 15 * output_tokens + 4 * cache_creation_tokens + cache_read_tokens

\* a key built as soon as one of the two ids is present
create_unique_hash_either(entry) ==
    LET message_id == StrOr(entry.message_id,
                            IF entry.has_message THEN entry.message.id ELSE NoStr)
        request_id == StrOr(entry.requestId, entry.request_id)
    IN  IF message_id # NoStr \/ request_id # NoStr
        THEN message_id \o <<":">> \o request_id
        ELSE NoStr

\* None is NoStr: the f-string of two non-empty ids is never empty
create_unique_hash(entry) ==
    LET message_id == StrOr(entry.message_id,
                            IF entry.has_message THEN entry.message.id ELSE NoStr)
        request_id == StrOr(entry.requestId, entry.request_id)
    IN  IF message_id # NoStr /\ request_id # NoStr
        THEN message_id \o <<":">> \o request_id
        ELSE NoStr

\* the counters assigned instead of accumulated
extract_usage_overwrite(entry, session) ==
    IF ~entry.has_message THEN session
    ELSE [session EXCEPT
             !.output_tokens = entry.message.usage.output_tokens,
             !.input_tokens = entry.message.usage.input_tokens,
             !.cache_read = entry.message.usage.cache_read_input_tokens,
             !.cache_create = entry.message.usage.cache_creation_input_tokens,
             !.cost = calculate_cost(entry.message.model, entry.message.usage.input_tokens,
                                     entry.message.usage.output_tokens,
                                     entry.message.usage.cache_creation_input_tokens,
                                     entry.message.usage.cache_read_input_tokens)]

extract_usage(entry, session) ==
    IF ~entry.has_message THEN session
    ELSE LET usage == entry.message.usage
             input_tokens == usage.input_tokens
             output_tokens == usage.output_tokens
             cache_read == usage.cache_read_input_tokens
             cache_create == usage.cache_creation_input_tokens
             cost == calculate_cost(entry.message.model, input_tokens, output_tokens,
                                    cache_create, cache_read)
         IN  [session EXCEPT !.output_tokens = @ + output_tokens,
                             !.input_tokens = @ + input_tokens,
                             !.cache_read = @ + cache_read,
                             !.cache_create = @ + cache_create,
                             !.cost = @ + cost]

\* the body of the loop over the content items
ToolItem(item, session) ==
    IF item.type # "tool_use" THEN session
    ELSE LET tool_name == IF item.name = NoStr THEN <<"unknown">> ELSE item.name
             skill_name == IF item.skill = "" THEN "unknown" ELSE item.skill
             file_path == IF item.file_path # "" THEN item.file_path ELSE item.path
             s1 == [session EXCEPT !.tool_calls = DictInc(@, tool_name)]
             s2 == IF Head(tool_name) = "mcp__"
                   THEN [s1 EXCEPT !.mcp_calls = DictInc(@, tool_name)] ELSE s1
             s3 == IF tool_name = <<"Skill">>
                   THEN [s2 EXCEPT !.skill_calls = DictInc(@, skill_name)] ELSE s2
         IN  IF file_path # ""
             THEN [s3 EXCEPT !.file_ops = DictInc(@, file_path)] ELSE s3

RECURSIVE ToolItems(_, _)
ToolItems(items, session) ==
    IF items = <<>> THEN session
    ELSE ToolItems(Tail(items), ToolItem(Head(items), session))

\* tool calls counted without the MCP categorisation
extract_tool_calls_uncategorised(entry, session) ==
    IF entry.type # "assistant" THEN session
    ELSE IF entry.message.content.shape = "str" THEN session
    ELSE [ToolItems(entry.message.content.items, session) EXCEPT
             !.mcp_calls = session.mcp_calls]

extract_tool_calls(entry, session) ==
    IF entry.type # "assistant" THEN session
    ELSE IF entry.message.content.shape = "str" THEN session
    ELSE ToolItems(entry.message.content.items, session)

extract_first_message(entry, session) ==
    IF ~session.first_msg.is_none THEN session
    ELSE IF entry.type # "user" THEN session
    ELSE LET content == entry.message.content
             texts == SelectSeq(content.items, LAMBDA c : c.type = "text")
         IN  CASE content.shape = "list" ->
                    IF texts = <<>> THEN session
                    ELSE [session EXCEPT !.first_msg = SomeMsg(StrPrefix(Head(texts).text, 200))]
               [] content.shape = "str" ->
                    [session EXCEPT !.first_msg = SomeMsg(StrPrefix(content.text, 200))]
               \* no content: .get('content', '') is the empty str
               [] OTHER -> [session EXCEPT !.first_msg = SomeMsg(NoStr)]

----------------------------------------------------------------------------
(* LogLoader._process_session_file, one line at a time (base.py).          *)

\* any(d in ts for d in target_dates)
InTargetDates(ts, target_dates) == \E d \in target_dates : StrContains(ts, d)

\* the entry_filter argument: no predicate, or a predicate on the entry
EntryFilters == {"none", "assistant_only"}

\* entry_filter and not entry_filter(entry)
Rejected(filter, entry) ==
    CASE filter = "assistant_only" -> entry.type # "assistant"
      [] OTHER -> FALSE

\* unique_hash and unique_hash in self._processed_hashes
IsDuplicate_never(unique_hash, processed) == FALSE

IsDuplicate(unique_hash, processed) ==
    unique_hash # NoStr /\ unique_hash \in processed

\* the set after the "if unique_hash:" block of an entry that is kept
AddHash(unique_hash, processed) ==
    IF unique_hash # NoStr THEN processed \cup {unique_hash} ELSE processed

\* the accounting of a surviving entry
FoldEntry(entry, session) ==
    LET s0 == [session EXCEPT !.timestamps = Append(@, entry.timestamp),
                              !.entries = Append(@, entry)]
    IN  extract_first_message(entry, extract_tool_calls(entry, extract_usage(entry, s0)))

\* the key registered before the date filter and the predicate are applied
ProcessLine_key_first(line, st, target_dates, filter) ==
    CASE line.kind = "bad" -> [st EXCEPT !.raised = FALSE]
      [] line.kind = "nonobj" -> [st EXCEPT !.raised = TRUE]
      [] OTHER ->
           IF IsDuplicate(create_unique_hash(line), st.hashes)
           THEN [st EXCEPT !.raised = FALSE]
           ELSE IF ~InTargetDates(line.timestamp, target_dates) \/ Rejected(filter, line)
           THEN [st EXCEPT !.hashes = AddHash(create_unique_hash(line), @),
                           !.raised = FALSE]
           ELSE [session |-> FoldEntry(line, st.session), has_target_date |-> TRUE,
                 hashes |-> AddHash(create_unique_hash(line), st.hashes),
                 raised |-> FALSE]

\* One iteration of "for line in f".  st is [session, has_target_date, hashes];
\* raised: an exception other than JSONDecodeError left the loop.
ProcessLine(line, st, target_dates, filter) ==
    CASE line.kind = "bad" -> [st EXCEPT !.raised = FALSE]
      [] line.kind = "nonobj" -> [st EXCEPT !.raised = TRUE]
      [] OTHER ->
           IF ~InTargetDates(line.timestamp, target_dates) THEN [st EXCEPT !.raised = FALSE]
           ELSE IF Rejected(filter, line) THEN [st EXCEPT !.raised = FALSE]
           ELSE IF IsDuplicate(create_unique_hash(line), st.hashes)
                THEN [st EXCEPT !.raised = FALSE]
           ELSE [session |-> FoldEntry(line, st.session), has_target_date |-> TRUE,
                 hashes |-> AddHash(create_unique_hash(line), st.hashes),
                 raised |-> FALSE]

\* Optional[SessionData]
None == [some |-> FALSE, session |-> SessionData(NoStr, "")]
Some(session) == [some |-> TRUE, session |-> session]

\* "return session if has_target_date else None"
FileResult(session, has_target_date) ==
    IF has_target_date THEN Some(session) ELSE None

\* "if session and session.output_tokens > 0"
ShouldYield_any_session(ret) == ret.some

ShouldYield(ret) == ret.some /\ ret.session.output_tokens > 0

\* self._processed_hashes.clear()
ResetHashes_keep(processed) == processed

ResetHashes(processed) == {}

----------------------------------------------------------------------------
(* The same code run as one call: _process_session_file over a whole file, *)
(* iter_sessions over a whole listing, on a loader nobody else uses.       *)

RECURSIVE ReadLines(_, _, _, _)
ReadLines(lines, st, target_dates, filter) ==
    IF lines = <<>> \/ st.raised THEN st
    ELSE ReadLines(Tail(lines), ProcessLine(Head(lines), st, target_dates, filter),
                   target_dates, filter)

\* [ret, hashes]: the Optional[SessionData] returned and the set it leaves
process_session_file(file, processed, target_dates, filter) ==
    LET st == ReadLines(file.lines,
                        [session |-> SessionData(file.name, file.project),
                         has_target_date |-> FALSE, hashes |-> processed, raised |-> FALSE],
                        target_dates, filter)
    IN  [ret |-> IF st.raised THEN None ELSE FileResult(st.session, st.has_target_date),
         hashes |-> st.hashes]

RECURSIVE ScanFiles(_, _, _, _)
ScanFiles(listing, processed, target_dates, filter) ==
    IF listing = <<>> THEN <<>>
    ELSE LET r == process_session_file(Head(listing), processed, target_dates, filter)
             rest == ScanFiles(Tail(listing), r.hashes, target_dates, filter)
         IN  IF ShouldYield(r.ret) THEN <<r.ret.session>> \o rest ELSE rest

\* list(loader.iter_sessions(target_dates, entry_filter)) on a fresh loader
iter_sessions(listing, target_dates, filter) ==
    ScanFiles(listing, ResetHashes({}), target_dates, filter)

----------------------------------------------------------------------------
(* AnomalyDetector._detect_session_anomalies (anomaly_detector.py).  An    *)
(* Anomaly is a record; its description, a text formatted from the other   *)
(* fields, is left out, and details is spread over tool, file, threshold.  *)

LOOP_THRESHOLD_TOOL == 20
LOOP_THRESHOLD_FILE == 10
LOOP_THRESHOLD_SQL == 10
SPIKE_THRESHOLD_TOKENS == 500000
\* 5.0 dollars, in micro-dollars
SPIKE_THRESHOLD_COST == 5000000

Anomaly(severity, type, session, count, tool, file, threshold) ==
    [severity |-> severity, type |-> type, session_id |-> session.session_id,
     project |-> session.project, count |-> count, tokens |-> session.output_tokens,
     cost |-> session.cost, tool |-> tool, file |-> file, threshold |-> threshold]

\* str.lower(), symbol by symbol
LowerSym(c) ==
    CASE c = "SQL" -> "sql"
      [] c = "Query" -> "query"
      [] c = "Execute" -> "execute"
      [] OTHER -> c

Lower(t) == [j \in 1..Len(t) |-> LowerSym(t[j])]

ToolLoop_at_threshold(tool, count, session) ==
    IF count >= LOOP_THRESHOLD_TOOL
    THEN <<Anomaly(IF count >= LOOP_THRESHOLD_TOOL * 3 THEN "HIGH" ELSE "MEDIUM",
                   "tool_loop", session, count, tool, "", LOOP_THRESHOLD_TOOL)>>
    ELSE <<>>

ToolLoop(tool, count, session) ==
    IF count > LOOP_THRESHOLD_TOOL
    THEN <<Anomaly(IF count > LOOP_THRESHOLD_TOOL * 3 THEN "HIGH" ELSE "MEDIUM",
                   "tool_loop", session, count, tool, "", LOOP_THRESHOLD_TOOL)>>
    ELSE <<>>

FileLoop(file_path, count, session) ==
    IF count > LOOP_THRESHOLD_FILE
    THEN <<Anomaly(IF count > LOOP_THRESHOLD_FILE * 2 THEN "MEDIUM" ELSE "LOW",
                   "file_loop", session, count, NoStr, file_path, LOOP_THRESHOLD_FILE)>>
    ELSE <<>>

IsSqlTool(t) ==
    \/ StrContains(Lower(t), <<"sql">>)
    \/ StrContains(Lower(t), <<"query">>)
    \/ StrContains(Lower(t), <<"execute">>)

SqlCalls(session) ==
    SumSeq([j \in 1..Len(session.mcp_calls) |->
              IF IsSqlTool(session.mcp_calls[j].k) THEN session.mcp_calls[j].v ELSE 0])

SqlLoop(session) ==
    LET sql_calls == SqlCalls(session)
    IN  IF sql_calls > LOOP_THRESHOLD_SQL
        THEN <<Anomaly(IF sql_calls > LOOP_THRESHOLD_SQL * 5 THEN "HIGH" ELSE "MEDIUM",
                       "sql_loop", session, sql_calls, NoStr, "", LOOP_THRESHOLD_SQL)>>
        ELSE <<>>

TokenSpike(session) ==
    IF session.output_tokens > SPIKE_THRESHOLD_TOKENS
    THEN <<Anomaly(IF session.output_tokens > SPIKE_THRESHOLD_TOKENS * 2
                   THEN "HIGH" ELSE "MEDIUM",
                   "token_spike", session, 1, NoStr, "", SPIKE_THRESHOLD_TOKENS)>>
    ELSE <<>>

\* the mutant: suppressed by a token spike of any severity
CostSpike_any_token_spike(session, found) ==
    IF session.cost > SPIKE_THRESHOLD_COST
       /\ ~\E j \in 1..Len(found) : found[j].type = "token_spike"
    THEN <<Anomaly(IF session.cost > SPIKE_THRESHOLD_COST * 2 THEN "HIGH" ELSE "MEDIUM",
                   "cost_spike", session, 1, NoStr, "", SPIKE_THRESHOLD_COST)>>
    ELSE <<>>

\* found: the anomalies appended so far
CostSpike(session, found) ==
    IF session.cost > SPIKE_THRESHOLD_COST
       /\ ~\E j \in 1..Len(found) :
              found[j].type = "token_spike" /\ found[j].severity = "HIGH"
    THEN <<Anomaly(IF session.cost > SPIKE_THRESHOLD_COST * 2 THEN "HIGH" ELSE "MEDIUM",
                   "cost_spike", session, 1, NoStr, "", SPIKE_THRESHOLD_COST)>>
    ELSE <<>>

AgentSpawnLoop(session) ==
    LET agent_calls == DictGet(session.tool_calls, <<"Task">>, 0)
    IN  IF agent_calls > 10
        THEN <<Anomaly(IF agent_calls > 20 THEN "MEDIUM" ELSE "LOW",
                       "agent_spawn_loop", session, agent_calls, NoStr, "", 0)>>
        ELSE <<>>

RECURSIVE ToolLoops(_, _)
\* the loop over session.tool_calls.items()
ToolLoops(items, session) ==
    IF items = <<>> THEN <<>>
    ELSE ToolLoop(Head(items).k, Head(items).v, session) \o ToolLoops(Tail(items), session)

RECURSIVE FileLoops(_, _)
\* the loop over session.file_ops.items()
FileLoops(items, session) ==
    IF items = <<>> THEN <<>>
    ELSE FileLoop(Head(items).k, Head(items).v, session) \o FileLoops(Tail(items), session)

detect_session_anomalies(session) ==
    LET loops == ToolLoops(session.tool_calls, session)
                 \o FileLoops(session.file_ops, session)
                 \o SqlLoop(session)
        spikes == loops \o TokenSpike(session)
    IN  spikes \o CostSpike(session, spikes) \o AgentSpawnLoop(session)

----------------------------------------------------------------------------
(* AnomalyDetector.analyze: the result document (anomaly_detector.py).     *)

\* severity_order.get(a.severity, 3)
SeverityOrder(severity) ==
    CASE severity = "HIGH" -> 0
      [] severity = "MEDIUM" -> 1
      [] severity = "LOW" -> 2
      [] OTHER -> 3

\* the key without its second component
KeyLeq_severity_only(a, b) == SeverityOrder(a.severity) <= SeverityOrder(b.severity)

\* the sort key (severity_order, -tokens) of a is less than or equal to that of b
KeyLeq(a, b) ==
    \/ SeverityOrder(a.severity) < SeverityOrder(b.severity)
    \/ /\ SeverityOrder(a.severity) = SeverityOrder(b.severity)
       /\ (0 - a.tokens) <= (0 - b.tokens)

RECURSIVE InsertAnomaly(_, _)
\* a, which came before every element of sorted, in its place
InsertAnomaly(a, sorted) ==
    IF sorted = <<>> \/ KeyLeq(a, Head(sorted)) THEN <<a>> \o sorted
    ELSE <<Head(sorted)>> \o InsertAnomaly(a, Tail(sorted))

RECURSIVE SortAnomalies(_)
\* list.sort(key=...): stable
SortAnomalies(found) ==
    IF found = <<>> THEN <<>>
    ELSE InsertAnomaly(Head(found), SortAnomalies(Tail(found)))

RECURSIVE CountTypes(_, _)
CountTypes(found, by_type) ==
    IF found = <<>> THEN by_type
    ELSE CountTypes(Tail(found), DictInc(by_type, Head(found).type))

RECURSIVE InsertCount(_, _)
InsertCount(p, sorted) ==
    IF sorted = <<>> \/ p.v >= Head(sorted).v THEN <<p>> \o sorted
    ELSE <<Head(sorted)>> \o InsertCount(p, Tail(sorted))

RECURSIVE SortCounts(_)
\* sorted(by_type.items(), key=lambda x: x[1], reverse=True): stable
SortCounts(d) ==
    IF d = <<>> THEN <<>> ELSE InsertCount(Head(d), SortCounts(Tail(d)))

group_by_type(found) == SortCounts(CountTypes(found, <<>>))

\* a recommendation: its text, and the number formatted into it (0: none)
Recommendation(msg, n) == [msg |-> msg, n |-> n]

generate_recommendations(found, projects_affected) ==
    LET type_counts == group_by_type(found)
        high_count == Len(SelectSeq(found, LAMBDA a : a.severity = "HIGH"))
        recommendations ==
            (IF DictGet(type_counts, "tool_loop", 0) >= 3
             THEN <<Recommendation("Multiple tool loops detected.", 0)>> ELSE <<>>)
            \o (IF DictGet(type_counts, "sql_loop", 0) >= 1
                THEN <<Recommendation("SQL query loops detected.", 0)>> ELSE <<>>)
            \o (IF DictGet(type_counts, "file_loop", 0) >= 2
                THEN <<Recommendation("File access loops detected.", 0)>> ELSE <<>>)
            \o (IF DictGet(type_counts, "agent_spawn_loop", 0) >= 1
                THEN <<Recommendation("Excessive agent spawning detected.", 0)>> ELSE <<>>)
            \o (IF Cardinality(projects_affected) >= 3
                THEN <<Recommendation("projects affected.", Cardinality(projects_affected))>>
                ELSE <<>>)
            \o (IF high_count >= 2
                THEN <<Recommendation("high-severity anomalies.", high_count)>> ELSE <<>>)
    IN  IF recommendations # <<>> THEN recommendations
        ELSE <<Recommendation("No critical issues detected.", 0)>>

\* list(a_set): the elements in the iteration order of the set, which for str
\* elements follows their hashes, salted anew in every interpreter run
ListsOfSet(S) ==
    {p \in [1..Cardinality(S) -> S] : \A x \in S : \E j \in 1..Cardinality(S) : p[j] = x}

\* the locals of analyze
IdleAnalysis ==
    [pc |-> "idle", total_sessions |-> 0, affected_sessions |-> 0,
     total_loop_tokens |-> 0, projects_affected |-> {}]

\* the dict analyze returns; anomaly_rate is the pair <<numerator, denominator>>
\* of the division, <<0, 1>> when there is no session
ResultDocument(target_dates, a, found, projects_list) ==
    [returned |-> TRUE,
     period |-> [start |-> target_dates[Len(target_dates)], end |-> target_dates[1],
                 days |-> Len(target_dates)],
     summary |-> [total_sessions |-> a.total_sessions,
                  sessions_with_anomalies |-> a.affected_sessions,
                  anomaly_rate |-> IF a.total_sessions > 0
                                   THEN <<a.affected_sessions * 100, a.total_sessions>>
                                   ELSE <<0, 1>>,
                  total_anomalies |-> Len(found),
                  total_loop_tokens |-> a.total_loop_tokens,
                  projects_affected |-> projects_list],
     by_severity |-> [high |-> SelectSeq(found, LAMBDA x : x.severity = "HIGH"),
                      medium |-> SelectSeq(found, LAMBDA x : x.severity = "MEDIUM"),
                      low |-> SelectSeq(found, LAMBDA x : x.severity = "LOW")],
     by_type |-> group_by_type(found),
     recommendations |-> generate_recommendations(found, a.projects_affected)]

----------------------------------------------------------------------------
(* The data root of the model.                                             *)

\* get_date_range(target_date="D1")
TargetDateList == << <<"D1">> >>

TargetDates == {TargetDateList[j] : j \in 1..Len(TargetDateList)}

InDate == <<"D1", "T", "1">>
OffDate == <<"D0", "T", "1">>

Bash == <<"Bash">>

\* an assistant entry with both ids, usage and one tool call
LineA ==
    EntryLine(InDate, "assistant", NoStr, <<"r1">>, TRUE,
              Message(<<"m1">>, Usage(1, 5, 2, 1), ContentList(<<ToolUse(Bash, "", "/a")>>)))

\* another entry with the ids of LineA
LineA2 ==
    EntryLine(InDate, "assistant", NoStr, <<"r1">>, TRUE,
              Message(<<"m1">>, Usage(2, 3, 1, 1), ContentList(<<>>)))

\* an assistant entry without a request id
LineN ==
    EntryLine(InDate, "assistant", NoStr, NoStr, TRUE,
              Message(<<"m1">>, Usage(0, 2, 0, 0), ContentList(<<>>)))

\* a user entry: text, no usage, no ids
LineU ==
    EntryLine(InDate, "user", NoStr, NoStr, TRUE,
              Message(NoStr, Usage(0, 0, 0, 0), ContentStr(<<"h", "i">>)))

\* an entry of another day, with the ids of LineA
LineO ==
    EntryLine(OffDate, "assistant", NoStr, <<"r1">>, TRUE,
              Message(<<"m1">>, Usage(1, 4, 0, 0), ContentList(<<>>)))

Lines == {LineA, LineA2, LineN, LineU, LineO, BadLine, NonObjectLine}

\* the session files, in listing order: <<project directory, file stem>>
FileNames == << <<"p1", <<"s1">> >>, <<"p2", <<"agent-", "s2">> >> >>

SeqsUpTo(S, n) == UNION {[1..k -> S] : k \in 0..n}

\* every data root over the lines of `catalogue` with at most MaxLines lines
DataRoots(catalogue) ==
    {[f \in 1..Len(FileNames) |->
        [project |-> FileNames[f][1], name |-> FileNames[f][2], lines |-> ls[f]]] :
     ls \in {x \in [1..Len(FileNames) -> SeqsUpTo(catalogue, MaxLines)] :
                SumSeq([f \in 1..Len(FileNames) |-> Len(x[f])]) <= MaxLines}}

----------------------------------------------------------------------------
(* LogLoader.iter_sessions as a generator (base.py).  A generator runs     *)
(* from a next() of its caller to its next yield; the program has one      *)
(* thread, so at most one generator body runs at a time.                   *)

Calls == 1..NumCalls

\* pc: "idle" (not started), "loop" (at the head of the loop over the files),
\* "read" (in the loop over the lines of gen[i].file), "yield" (suspended at the
\* yield), "done" (exhausted)
IdleFrame ==
    [pc |-> "idle", todo |-> <<>>, file |-> 0, pos |-> 0,
     session |-> None.session, has_target_date |-> FALSE]

AnalyzerUnchanged == UNCHANGED <<anomalies, acc, result, probe>>

InProgress(j) == gen[j].pc \notin {"idle", "done"}

\* generator i takes a step: it overlaps every other generator under way
Touch(i) ==
    overlap' = [k \in Calls |->
                  overlap[k] \/ ((k = i \/ InProgress(k))
                                 /\ \E j \in Calls \ {i} : InProgress(j))]

\* the first next(): the data path exists, the set is cleared, the listing starts
BeginScan(i) ==
    /\ gen[i].pc = "idle"
    /\ active = 0
    /\ hashes' = ResetHashes(hashes)
    /\ gen' = [gen EXCEPT ![i] = [@ EXCEPT !.pc = "loop",
                                           !.todo = [f \in 1..Len(files) |-> f]]]
    /\ active' = i
    /\ Touch(i)
    /\ UNCHANGED <<files, entry_filter, out, log>>

\* a call of iter_sessions that starts when the calls before it have run to completion
StartCall(i) ==
    /\ \A j \in Calls : (j < i => gen[j].pc = "done") /\ (j > i => gen[j].pc = "idle")
    /\ BeginScan(i)
    /\ AnalyzerUnchanged

\* a call of iter_sessions that starts while another generator of the loader is suspended
StartInterleaved(i) ==
    /\ \A j \in Calls : j < i => gen[j].pc # "idle"
    /\ BeginScan(i)
    /\ AnalyzerUnchanged

\* the loops over the directories and files: the next file is opened, or the scan ends
OpenFile(i) ==
    /\ gen[i].pc = "loop"
    /\ active = i
    /\ IF gen[i].todo = <<>>
       THEN /\ gen' = [gen EXCEPT ![i] = [@ EXCEPT !.pc = "done", !.file = 0]]
            /\ active' = 0
       ELSE LET f == Head(gen[i].todo)
            IN  /\ gen' = [gen EXCEPT ![i] =
                        [pc |-> "read", todo |-> Tail(gen[i].todo), file |-> f, pos |-> 1,
                         session |-> SessionData(files[f].name, files[f].project),
                         has_target_date |-> FALSE]]
                /\ active' = active
    /\ Touch(i)
    /\ UNCHANGED <<files, entry_filter, hashes, out, log>>

\* one line of the open file; an exception drops the file and goes on with the next
ReadLine(i) ==
    /\ gen[i].pc = "read"
    /\ active = i
    /\ gen[i].pos <= Len(files[gen[i].file].lines)
    /\ LET g == gen[i]
           st == ProcessLine(files[g.file].lines[g.pos],
                             [session |-> g.session, has_target_date |-> g.has_target_date,
                              hashes |-> hashes, raised |-> FALSE],
                             TargetDates, entry_filter)
       IN  /\ hashes' = st.hashes
           /\ gen' = [gen EXCEPT ![i] =
                        IF st.raised
                        THEN [g EXCEPT !.pc = "loop", !.session = None.session,
                                       !.has_target_date = FALSE, !.pos = 0]
                        ELSE [g EXCEPT !.pos = @ + 1, !.session = st.session,
                                       !.has_target_date = st.has_target_date]]
           /\ log' = [log EXCEPT ![i] = Append(@, [file |-> g.file, line |-> g.pos,
                                                    raised |-> st.raised])]
    /\ Touch(i)
    /\ UNCHANGED <<files, entry_filter, active, out>>

\* the end of the file: its session is yielded, or the loop goes on
EndFile(i) ==
    /\ gen[i].pc = "read"
    /\ active = i
    /\ gen[i].pos > Len(files[gen[i].file].lines)
    /\ LET ret == FileResult(gen[i].session, gen[i].has_target_date)
       IN  IF ShouldYield(ret)
           THEN /\ out' = [out EXCEPT ![i] = Append(@, ret.session)]
                /\ gen' = [gen EXCEPT ![i] = [@ EXCEPT !.pc = "yield"]]
                /\ active' = 0
           ELSE /\ out' = out
                /\ gen' = [gen EXCEPT ![i] = [@ EXCEPT !.pc = "loop",
                                                       !.session = None.session,
                                                       !.has_target_date = FALSE,
                                                       !.pos = 0]]
                /\ active' = active
    /\ Touch(i)
    /\ UNCHANGED <<files, entry_filter, hashes, log>>

\* the caller's next() on a suspended generator
Resume(i) ==
    /\ gen[i].pc = "yield"
    /\ active = 0
    /\ gen' = [gen EXCEPT ![i] = [@ EXCEPT !.pc = "loop", !.session = None.session,
                                           !.has_target_date = FALSE, !.pos = 0]]
    /\ active' = i
    /\ Touch(i)
    /\ UNCHANGED <<files, entry_filter, hashes, out, log>>

Scan(i) ==
    \/ OpenFile(i) /\ AnalyzerUnchanged
    \/ ReadLine(i) /\ AnalyzerUnchanged
    \/ EndFile(i) /\ AnalyzerUnchanged

----------------------------------------------------------------------------
(* Specifications.                                                         *)

NoResult == [returned |-> FALSE]

InitLoader(catalogue) ==
    /\ files \in DataRoots(catalogue)
    /\ hashes = {}
    /\ active = 0
    /\ gen = [i \in Calls |-> IdleFrame]
    /\ out = [i \in Calls |-> <<>>]
    /\ log = [i \in Calls |-> <<>>]
    /\ overlap = [i \in Calls |-> FALSE]
    /\ anomalies = <<>>
    /\ acc = [i \in Calls |-> IdleAnalysis]
    /\ result = [i \in Calls |-> NoResult]
    /\ probe = 0

\* iter_sessions called NumCalls times on one loader, each call consumed to the
\* end before the next
Init ==
    /\ InitLoader(Lines)
    /\ entry_filter \in EntryFilters

Next ==
    \E i \in Calls :
        \/ StartCall(i)
        \/ Scan(i)
        \/ Resume(i) /\ AnalyzerUnchanged

Spec == Init /\ [][Next]_vars

\* iter_sessions called NumCalls times on one loader, the generators advanced in
\* any order: a generator may be started or resumed whenever no body is running
NextInterleave ==
    \E i \in Calls :
        \/ StartInterleaved(i)
        \/ Scan(i)
        \/ Resume(i) /\ AnalyzerUnchanged

\* the lines that matter to deduplication; no predicate
InterleaveLines == {LineA, LineA2, LineN, LineU, NonObjectLine}

InitInterleave ==
    /\ InitLoader(InterleaveLines)
    /\ entry_filter = "none"

SpecInterleave == InitInterleave /\ [][NextInterleave]_vars

----------------------------------------------------------------------------
(* AnomalyDetector.analyze, driving the generator of its loader.  Two      *)
(* analyses are two runs of the analyzer over the same data root: on one   *)
(* detector, or in two interpreter runs (the loader's set is cleared and   *)
(* self.anomalies is reset at the start of each either way).               *)

\* an entry with 21 calls of one tool: a tool loop
LineLoop ==
    EntryLine(InDate, "assistant", NoStr, NoStr, TRUE,
              Message(<<"m2">>, Usage(1, 5, 0, 0),
                      ContentList([j \in 1..(LOOP_THRESHOLD_TOOL + 1) |-> ToolUse(Bash, "", "")])))

\* an entry with 11 reads of one file: a file loop
LineFiles ==
    EntryLine(InDate, "assistant", NoStr, NoStr, TRUE,
              Message(<<"m3">>, Usage(1, 5, 0, 0),
                      ContentList([j \in 1..(LOOP_THRESHOLD_FILE + 1) |->
                                      ToolUse(<<"Read">>, "", "/a")])))

AnalyzeLines == {LineLoop, LineFiles, LineA, LineA2, NonObjectLine}

\* analyze up to its first next() on the generator
AnalyzeStart(i) ==
    /\ acc[i].pc = "idle"
    /\ \A j \in Calls : (j < i => acc[j].pc = "done") /\ (j > i => acc[j].pc = "idle")
    /\ BeginScan(i)
    /\ anomalies' = <<>>
    /\ acc' = [acc EXCEPT ![i] = [IdleAnalysis EXCEPT !.pc = "running"]]
    /\ UNCHANGED <<result, probe>>

\* the body of "for session in self.loader.iter_sessions(...)" and the next()
\* that follows it
Consume(i) ==
    /\ acc[i].pc = "running"
    /\ gen[i].pc = "yield"
    /\ active = 0
    /\ LET session == out[i][Len(out[i])]
           session_anomalies == detect_session_anomalies(session)
       IN  /\ acc' = [acc EXCEPT ![i] =
                        IF session_anomalies # <<>>
                        THEN [@ EXCEPT !.total_sessions = @ + 1,
                                       !.affected_sessions = @ + 1,
                                       !.projects_affected = @ \cup {session.project},
                                       !.total_loop_tokens = @ + session.output_tokens]
                        ELSE [@ EXCEPT !.total_sessions = @ + 1]]
           /\ anomalies' = anomalies \o session_anomalies
    /\ gen' = [gen EXCEPT ![i] = [@ EXCEPT !.pc = "loop", !.session = None.session,
                                           !.has_target_date = FALSE, !.pos = 0]]
    /\ active' = i
    /\ Touch(i)
    /\ UNCHANGED <<files, entry_filter, hashes, out, log, result, probe>>

\* after the loop: the sort and the document
Finish(i) ==
    /\ acc[i].pc = "running"
    /\ gen[i].pc = "done"
    /\ anomalies' = SortAnomalies(anomalies)
    /\ \E projects_list \in ListsOfSet(acc[i].projects_affected) :
          result' = [result EXCEPT ![i] =
                        ResultDocument(TargetDateList, acc[i], SortAnomalies(anomalies),
                                       projects_list)]
    /\ acc' = [acc EXCEPT ![i] = [@ EXCEPT !.pc = "done"]]
    /\ UNCHANGED <<files, entry_filter, hashes, active, gen, out, log, overlap, probe>>

InitAnalyze ==
    /\ InitLoader(AnalyzeLines)
    /\ entry_filter = "none"

NextAnalyze ==
    \E i \in Calls :
        \/ AnalyzeStart(i)
        \/ Scan(i)
        \/ Consume(i)
        \/ Finish(i)

SpecAnalyze == InitAnalyze /\ [][NextAnalyze]_vars

----------------------------------------------------------------------------
(* _detect_session_anomalies on its own: the rules applied to one yielded  *)
(* session.  The rules read the mappings, output_tokens and cost; a        *)
(* yielded session has output_tokens > 0 and a timestamp, its mcp_calls    *)
(* are its tool_calls with the mcp__ prefix, and it has no more file       *)
(* operations than tool calls.                                             *)

Task == <<"Task">>
McpQuery == <<"mcp__", "db", "__", "query">>

\* the dict of the pairs with a count
DictOf(pairs) == SelectSeq(pairs, LAMBDA p : p.v > 0)

ProbeSession(bash, task, query, file, output_tokens, cost) ==
    [SessionData(<<"s1">>, "p1") EXCEPT
        !.tool_calls = DictOf(<<[k |-> Bash, v |-> bash], [k |-> Task, v |-> task],
                                [k |-> McpQuery, v |-> query]>>),
        !.mcp_calls = DictOf(<<[k |-> McpQuery, v |-> query]>>),
        !.file_ops = DictOf(<<[k |-> "/a", v |-> file]>>),
        !.output_tokens = output_tokens,
        !.cost = cost,
        !.timestamps = <<InDate>>]

\* call counts around the thresholds of the agent, sql and file rules
TaskCounts == {0, 11, 21}
QueryCounts == {0, 11, 51}
FileCounts == {0, 11, 21}
\* output tokens and costs at and next to the spike thresholds
TokenCounts == {1, SPIKE_THRESHOLD_TOKENS, SPIKE_THRESHOLD_TOKENS + 1,
                2 * SPIKE_THRESHOLD_TOKENS, 2 * SPIKE_THRESHOLD_TOKENS + 1}
Costs == {0, SPIKE_THRESHOLD_COST, SPIKE_THRESHOLD_COST + 1,
          2 * SPIKE_THRESHOLD_COST, 2 * SPIKE_THRESHOLD_COST + 1}

ProbeSessions ==
    {ProbeSession(b, t, q, f, o, c) :
        b \in 0..MaxToolCalls, t \in TaskCounts, q \in QueryCounts,
        f \in FileCounts, o \in TokenCounts, c \in Costs}

InitDetect ==
    /\ files = <<>>
    /\ entry_filter = "none"
    /\ hashes = {}
    /\ active = 0
    /\ gen = [i \in Calls |-> IdleFrame]
    /\ out = [i \in Calls |-> <<>>]
    /\ log = [i \in Calls |-> <<>>]
    /\ overlap = [i \in Calls |-> FALSE]
    /\ anomalies = <<>>
    /\ acc = [i \in Calls |-> IdleAnalysis]
    /\ result = [i \in Calls |-> NoResult]
    /\ \E s \in ProbeSessions :
          /\ SumSeq([j \in 1..Len(s.file_ops) |-> s.file_ops[j].v])
                <= SumSeq([j \in 1..Len(s.tool_calls) |-> s.tool_calls[j].v])
          /\ probe = [session |-> s, returned |-> FALSE, anomalies |-> <<>>]

\* session_anomalies = self._detect_session_anomalies(session)
Detect ==
    /\ ~probe.returned
    /\ probe' = [probe EXCEPT !.returned = TRUE,
                              !.anomalies = detect_session_anomalies(probe.session)]
    /\ UNCHANGED <<files, entry_filter, hashes, active, gen, out, log, overlap,
                   anomalies, acc, result>>

SpecDetect == InitDetect /\ [][Detect]_vars

----------------------------------------------------------------------------
(* Vocabulary of the properties, in terms of the lines a call has read.    *)

LineAt(p) == files[p.file].lines[p.line]

\* the line generator i is about to read
CurrentLine(i) == files[gen[i].file].lines[gen[i].pos]

\* generator i reads a line in this step
Reads(i) == log'[i] # log[i]

\* an entry whose timestamp matches a target date and that the predicate accepts
PassesFilters(e) ==
    /\ e.kind = "entry"
    /\ InTargetDates(e.timestamp, TargetDates)
    /\ ~Rejected(entry_filter, e)

\* the entry carries a composite key: a message id and a request id
Keyed(e) == e.kind = "entry" /\ create_unique_hash(e) # NoStr

\* a line read earlier in call i carries the key of e
KeySeen(i, e) ==
    \E n \in 1..Len(log[i]) :
        Keyed(LineAt(log[i][n]))
        /\ create_unique_hash(LineAt(log[i][n])) = create_unique_hash(e)

\* a line read earlier in call i carries the key of e and passed the filters
KeySeenPassing(i, e) ==
    \E n \in 1..Len(log[i]) :
        /\ Keyed(LineAt(log[i][n]))
        /\ PassesFilters(LineAt(log[i][n]))
        /\ create_unique_hash(LineAt(log[i][n])) = create_unique_hash(e)

\* the step leaves the session of generator i as it was, still reading the file
SessionUntouched(i) ==
    /\ gen'[i].session = gen[i].session
    /\ gen'[i].has_target_date = gen[i].has_target_date
    /\ gen'[i].pc = "read"
    /\ gen'[i].file = gen[i].file

UsageTokens(e) ==
    e.message.usage.input_tokens + e.message.usage.output_tokens
    + e.message.usage.cache_read_input_tokens
    + e.message.usage.cache_creation_input_tokens

\* the step counts entry e into the session of generator i
SessionCounts(i, e) ==
    /\ gen'[i].session.timestamps = Append(gen[i].session.timestamps, e.timestamp)
    /\ gen'[i].session.entries = Append(gen[i].session.entries, e)
    /\ gen'[i].session.output_tokens =
           gen[i].session.output_tokens + e.message.usage.output_tokens
    /\ total_tokens(gen'[i].session) = total_tokens(gen[i].session) + UsageTokens(e)
    /\ gen'[i].has_target_date

\* the n-th line call i read survived: it passed the filters and was no duplicate
Survived(i, n) ==
    LET e == LineAt(log[i][n])
    IN  /\ PassesFilters(e)
        /\ ~(Keyed(e) /\ \E m \in 1..(n - 1) :
                            /\ PassesFilters(LineAt(log[i][m]))
                            /\ create_unique_hash(LineAt(log[i][m])) = create_unique_hash(e))

\* the files call i is through with
Processed(i) ==
    {f \in 1..Len(files) :
        /\ gen[i].pc # "idle"
        /\ \A k \in 1..Len(gen[i].todo) : gen[i].todo[k] # f
        /\ ~(gen[i].pc = "read" /\ gen[i].file = f)}

\* the files whose read failed in call i
Failed(i) == {f \in 1..Len(files) : \E n \in 1..Len(log[i]) : log[i][n].file = f /\ log[i][n].raised}

\* call i read file f without error
ReadToEnd(i, f) == f \notin Failed(i)

\* the output tokens of the surviving entries of file f in call i
SurvivingOutput(i, f) ==
    SumSeq([n \in 1..Len(log[i]) |->
              IF log[i][n].file = f /\ Survived(i, n)
              THEN LineAt(log[i][n]).message.usage.output_tokens ELSE 0])

HasSurvivor(i, f) == \E n \in 1..Len(log[i]) : log[i][n].file = f /\ Survived(i, n)

\* how many sessions of file f call i has yielded
TimesYielded(i, f) ==
    Cardinality({n \in 1..Len(out[i]) :
                    /\ out[i][n].session_id = files[f].name
                    /\ out[i][n].project = files[f].project})

----------------------------------------------------------------------------
(* C1 *)

\* C1 as stated: within one iter_sessions call, of the entries that carry one
\* composite key (message id and request id both present) the first one in scan
\* order is counted, and every later one changes no counter, no mapping, not the
\* timestamps and not first_msg.
C1_FirstKeyedEntryCounted_AsStated ==
    [][\A i \in Calls :
          (Reads(i) /\ Keyed(CurrentLine(i))) =>
              IF KeySeen(i, CurrentLine(i))
              THEN SessionUntouched(i)
              ELSE SessionCounts(i, CurrentLine(i))]_vars

\* C1 as amended: within one iter_sessions call, of the entries that carry one
\* composite key AND pass the date filter and the predicate, the first one in scan
\* order is counted, and every later one leaves the session as it was (so at most
\* one entry of a key is folded).
C1_FirstSurvivingKeyedEntryCounted ==
    [][\A i \in Calls :
          (Reads(i) /\ Keyed(CurrentLine(i)) /\ PassesFilters(CurrentLine(i))) =>
              IF KeySeenPassing(i, CurrentLine(i))
              THEN SessionUntouched(i)
              ELSE SessionCounts(i, CurrentLine(i))]_vars

\* a second entry of a key was read after the first was counted, in another file,
\* and the session of that file is still empty
C1_Witness ==
    \E i \in Calls :
        /\ gen[i].pc = "read"
        /\ gen[i].session.timestamps = <<>>
        /\ \E n, m \in 1..Len(log[i]) :
              /\ m < n
              /\ log[i][n].file = gen[i].file
              /\ log[i][m].file # gen[i].file
              /\ Keyed(LineAt(log[i][n])) /\ PassesFilters(LineAt(log[i][n]))
              /\ Survived(i, m)
              /\ create_unique_hash(LineAt(log[i][m])) = create_unique_hash(LineAt(log[i][n]))

----------------------------------------------------------------------------
(* C2 *)

\* C2: a call yields the session of a file exactly once if the file was read
\* without error, has a surviving entry and a final output_tokens > 0, and never
\* otherwise; every yielded session has timestamps and output_tokens > 0.
C2_YieldedIffSurvivorWithOutput ==
    \A i \in Calls :
        /\ \A f \in Processed(i) :
              TimesYielded(i, f) =
                  IF ReadToEnd(i, f) /\ HasSurvivor(i, f) /\ SurvivingOutput(i, f) > 0
                  THEN 1 ELSE 0
        /\ \A n \in 1..Len(out[i]) :
              out[i][n].timestamps # <<>> /\ out[i][n].output_tokens > 0

\* a call ended having yielded one file and dropped another that had a surviving
\* entry but no output tokens
C2_Witness ==
    \E i \in Calls :
        /\ gen[i].pc = "done"
        /\ \E f, g \in Processed(i) :
              /\ TimesYielded(i, f) = 1
              /\ TimesYielded(i, g) = 0
              /\ ReadToEnd(i, g) /\ HasSurvivor(i, g) /\ SurvivingOutput(i, g) = 0

----------------------------------------------------------------------------
(* C3 *)

\* C3: total_tokens of every session, while entries are folded in and once it is
\* yielded, is input_tokens + output_tokens + cache_read + cache_create.
C3_TotalTokensIsSum ==
    \A i \in Calls :
        /\ total_tokens(gen[i].session) =
              gen[i].session.input_tokens + gen[i].session.output_tokens
              + gen[i].session.cache_read + gen[i].session.cache_create
        /\ \A n \in 1..Len(out[i]) :
              total_tokens(out[i][n]) =
                  out[i][n].input_tokens + out[i][n].output_tokens
                  + out[i][n].cache_read + out[i][n].cache_create

\* a session with cache_create tokens folded in and a line still to read
C3_Witness ==
    \E i \in Calls :
        /\ gen[i].pc = "read"
        /\ gen[i].pos <= Len(files[gen[i].file].lines)
        /\ gen[i].session.cache_create > 0
        /\ gen[i].session.input_tokens > 0

----------------------------------------------------------------------------
(* C4 *)

\* C4 as stated: when a call ends, the sessions it yielded are those a scan of the
\* same listing without the files whose read failed yields.
C4_FailedFileAsIfAbsent ==
    \A i \in Calls :
        gen[i].pc = "done" =>
            out[i] = iter_sessions(
                         SelectSeq(files, LAMBDA file :
                             \E f \in 1..Len(files) :
                                 files[f] = file /\ f \notin Failed(i)),
                         TargetDates, entry_filter)

----------------------------------------------------------------------------
(* C5 *)

\* C5 as stated: reading a line that is not a JSON object leaves the session with
\* the entries folded so far and goes on with the next line of the file.
C5_UnparsableLineSkipped ==
    [][\A i \in Calls :
          (Reads(i) /\ CurrentLine(i).kind # "entry") =>
              SessionUntouched(i) /\ gen'[i].pos = gen[i].pos + 1]_vars

----------------------------------------------------------------------------
(* C7 *)

\* C7: a call of iter_sessions that runs after earlier calls on the same loader
\* have run to completion yields the sessions the first call, on the fresh
\* loader, yielded: no key of an earlier call suppresses an entry.
C7_LaterCallYieldsAsFreshLoader ==
    \A i \in Calls : gen[i].pc = "done" => out[i] = out[1]

\* a later call ended having yielded a session with a keyed entry
C7_Witness ==
    \E i \in Calls :
        /\ i > 1
        /\ gen[i].pc = "done"
        /\ \E n \in 1..Len(out[i]) : \E k \in 1..Len(out[i][n].entries) :
              Keyed(out[i][n].entries[k])

----------------------------------------------------------------------------
(* C8 *)

----------------------------------------------------------------------------
(* C9 *)

\* the tool_loop anomalies returned for tool name t
ToolLoopsOf(t) ==
    {n \in 1..Len(probe.anomalies) :
        probe.anomalies[n].type = "tool_loop" /\ probe.anomalies[n].tool = t}

\* C9: for every tool name of the session, with call count c, the rules return no
\* tool_loop anomaly if c <= 20, exactly one, MEDIUM, if 21 <= c <= 60 and exactly
\* one, HIGH, if c > 60; they return none for a name the session did not call.
C9_ToolLoopByCount ==
    probe.returned =>
        /\ \A j \in 1..Len(probe.session.tool_calls) :
              LET t == probe.session.tool_calls[j].k
                  c == probe.session.tool_calls[j].v
              IN  IF c <= 20 THEN ToolLoopsOf(t) = {}
                  ELSE /\ Cardinality(ToolLoopsOf(t)) = 1
                       /\ \A n \in ToolLoopsOf(t) :
                             /\ probe.anomalies[n].severity =
                                    (IF c > 60 THEN "HIGH" ELSE "MEDIUM")
                             /\ probe.anomalies[n].count = c
        /\ \A n \in 1..Len(probe.anomalies) :
              probe.anomalies[n].type = "tool_loop" =>
                  probe.anomalies[n].tool \in DictKeys(probe.session.tool_calls)

\* one tool called 61 times and flagged HIGH, another called 21 times and flagged
\* MEDIUM, in one session
C9_Witness ==
    /\ probe.returned
    /\ DictGet(probe.session.tool_calls, Bash, 0) = 61
    /\ DictGet(probe.session.tool_calls, Task, 0) = 21
    /\ \E n \in ToolLoopsOf(Bash) : probe.anomalies[n].severity = "HIGH"
    /\ \E n \in ToolLoopsOf(Task) : probe.anomalies[n].severity = "MEDIUM"

----------------------------------------------------------------------------
(* C10 *)

CostSpikes == {n \in 1..Len(probe.anomalies) : probe.anomalies[n].type = "cost_spike"}

HighTokenSpike ==
    \E n \in 1..Len(probe.anomalies) :
        probe.anomalies[n].type = "token_spike" /\ probe.anomalies[n].severity = "HIGH"

----------------------------------------------------------------------------
(* C6 *)

\* C6 as stated: every run of the analyzer over the unchanged data root and date
\* range returns the document the first run returned, list orders included.
C6_RerunIdentical ==
    \A i \in Calls :
        (result[1].returned /\ result[i].returned) => result[i] = result[1]

----------------------------------------------------------------------------
(* C11 *)

RECURSIVE EmittedOf(_)
\* the anomalies of a sequence of sessions, session by session, in rule order
EmittedOf(sessions) ==
    IF sessions = <<>> THEN <<>>
    ELSE detect_session_anomalies(Head(sessions)) \o EmittedOf(Tail(sessions))

\* the position of anomaly a in the emission order of analysis i
EmissionIndex(i, a) ==
    CHOOSE n \in 1..Len(EmittedOf(out[i])) : EmittedOf(out[i])[n] = a

\* the anomalies of the document of analysis i, high to low
Reported(i) ==
    result[i].by_severity.high \o result[i].by_severity.medium \o result[i].by_severity.low

SeverityBefore(x, y) ==
    <<x, y>> \in {<<"HIGH", "MEDIUM">>, <<"HIGH", "LOW">>, <<"MEDIUM", "LOW">>}

\* analysis i has returned and no later analysis has reset self.anomalies
LastReturned(i) ==
    /\ result[i].returned
    /\ \A j \in Calls : j > i => acc[j].pc = "idle"

\* list s holds the emitted anomalies of analysis i, by severity, then by
\* non-increasing tokens, then in emission order
OrderedEmission(i, s) ==
    /\ Len(s) = Len(EmittedOf(out[i]))
    /\ \A n \in 1..Len(EmittedOf(out[i])) : \E k \in 1..Len(s) : s[k] = EmittedOf(out[i])[n]
    /\ \A a, b \in 1..Len(s) :
          a < b =>
             \/ SeverityBefore(s[a].severity, s[b].severity)
             \/ /\ s[a].severity = s[b].severity
                /\ s[a].tokens >= s[b].tokens
                /\ s[a].tokens = s[b].tokens =>
                      EmissionIndex(i, s[a]) < EmissionIndex(i, s[b])

\* C11: after analyze, self.anomalies and the by_severity lists of the document
\* hold every emitted anomaly once, all HIGH before all MEDIUM before all LOW,
\* within a severity by non-increasing tokens, and anomalies equal in severity
\* and tokens in the order they were emitted (session scan order, then rule order).
C11_SortedBySeverityTokensStable ==
    \A i \in Calls :
        /\ result[i].returned => OrderedEmission(i, Reported(i))
        /\ LastReturned(i) => anomalies = Reported(i)

\* an analysis whose sort moved a later, heavier session's anomaly ahead of an
\* earlier one of its severity, and a MEDIUM ahead of an earlier LOW
C11_Witness ==
    \E i \in Calls :
        /\ LastReturned(i)
        /\ anomalies # EmittedOf(out[i])
        /\ \E a, b \in 1..Len(anomalies) :
              /\ a < b
              /\ anomalies[a].severity = anomalies[b].severity
              /\ anomalies[a].tokens > anomalies[b].tokens
              /\ EmissionIndex(i, anomalies[a]) > EmissionIndex(i, anomalies[b])
        /\ \E a, b \in 1..Len(anomalies) :
              /\ a < b
              /\ anomalies[a].severity = "MEDIUM" /\ anomalies[b].severity = "LOW"
              /\ EmissionIndex(i, anomalies[a]) > EmissionIndex(i, anomalies[b])

----------------------------------------------------------------------------
(* The analyzers that reduce the sessions of one scan (cache_analyzer.py,   *)
(* tool_analyzer.py, skill_analyzer.py, roi_analyzer.py, predictor.py).     *)
(* Their loops are followed over the sequence of sessions the loader        *)
(* yields: probe.sessions is that sequence, probe.pos the number consumed.  *)

\* the most sessions one scan yields
MaxSessions == 2

\* the loader and the anomaly detector, not involved
QuietLoader ==
    /\ files = <<>>
    /\ entry_filter = "none"
    /\ hashes = {}
    /\ active = 0
    /\ gen = [i \in Calls |-> IdleFrame]
    /\ out = [i \in Calls |-> <<>>]
    /\ log = [i \in Calls |-> <<>>]
    /\ overlap = [i \in Calls |-> FALSE]
    /\ anomalies = <<>>
    /\ acc = [i \in Calls |-> IdleAnalysis]
    /\ result = [i \in Calls |-> NoResult]

OnlyProbe ==
    UNCHANGED <<files, entry_filter, hashes, active, gen, out, log, overlap,
                anomalies, acc, result>>

\* a Python float that is the quotient of two integers, kept exact
Frac(num, den) == [num |-> num, den |-> den]

RECURSIVE QuotientLeq(_, _, _, _)
\* a / b <= c / d for a, c >= 0 and b, d > 0, by whole parts and then remainders
\* (the products of a cross-multiplication leave the range of the checker's integers)
QuotientLeq(a, b, c, d) ==
    IF a \div b # c \div d THEN a \div b < c \div d
    ELSE IF a % b = 0 THEN TRUE
    ELSE IF c % d = 0 THEN FALSE
    ELSE QuotientLeq(d, c % d, b, a % b)

FracLeq(f, g) == QuotientLeq(f.num, f.den, g.num, g.den)

FracLt(f, g) == ~FracLeq(g, f)

RECURSIVE InsertAscending(_, _)
\* p, which came before every element of sorted, in its place by p.key
InsertAscending(p, sorted) ==
    IF sorted = <<>> \/ FracLeq(p.key, Head(sorted).key) THEN <<p>> \o sorted
    ELSE <<Head(sorted)>> \o InsertAscending(p, Tail(sorted))

RECURSIVE SortAscending(_)
\* sorted(items, key=...) on [key, item] pairs: stable
SortAscending(pairs) ==
    IF pairs = <<>> THEN <<>>
    ELSE InsertAscending(Head(pairs), SortAscending(Tail(pairs)))

RECURSIVE InsertDescending(_, _)
InsertDescending(p, sorted) ==
    IF sorted = <<>> \/ FracLeq(Head(sorted).key, p.key) THEN <<p>> \o sorted
    ELSE <<Head(sorted)>> \o InsertDescending(p, Tail(sorted))

RECURSIVE SortDescending(_)
\* sorted(items, key=..., reverse=True) on [key, item] pairs: stable
SortDescending(pairs) ==
    IF pairs = <<>> THEN <<>>
    ELSE InsertDescending(Head(pairs), SortDescending(Tail(pairs)))

\* the items of sorted pairs
ItemsOf(pairs) == [j \in 1..Len(pairs) |-> pairs[j].item]

\* seq[:n]
Top(seq, n) == SubSeq(seq, 1, Min(Len(seq), n))

\* d[k] = v
DictSet(d, k, v) ==
    IF \E j \in 1..Len(d) : d[j].k = k
    THEN [j \in 1..Len(d) |-> IF d[j].k = k THEN [k |-> k, v |-> v] ELSE d[j]]
    ELSE Append(d, [k |-> k, v |-> v])

\* the position of a date among the dates, for the order of the date strings
DayRank(day) ==
    CASE day = <<"D0">> -> 0
      [] day = <<"D1">> -> 1
      [] day = <<"D2">> -> 2
      [] day = <<"D3">> -> 3
      [] day = <<"D4">> -> 4
      [] day = <<"D5">> -> 5
      [] day = <<"D6">> -> 6
      [] day = <<"D7">> -> 7
      [] day = <<"D8">> -> 8
      [] day = <<"D9">> -> 9
      [] OTHER -> 10

\* timestamps[0][:10]; a date is one symbol of ten characters
DayOf(session) == StrPrefix(session.timestamps[1], 1)

----------------------------------------------------------------------------
(* CacheStats and CacheAnalyzer.analyze (cache_analyzer.py).                *)

CacheStats ==
    [cache_read |-> 0, cache_create |-> 0, input_tokens |-> 0, output_tokens |-> 0,
     sessions |-> 0, cost |-> 0]

total_input_context(st) == st.cache_read + st.cache_create + st.input_tokens

cache_hit_rate(st) ==
    LET total == total_input_context(st)
    IN  IF total > 0 THEN Frac(st.cache_read * 100, total) ELSE Frac(0, 1)

\* min(100, read_ratio * 80 + create_efficiency * 20), as the two terms of the
\* sum: read_ratio and create_efficiency are at most 1, so the sum is at most 100
cache_efficiency_score(st) ==
    LET total == total_input_context(st)
    IN  IF total = 0 THEN [read_term |-> Frac(0, 1), create_term |-> Frac(0, 1)]
        ELSE [read_term |-> Frac(st.cache_read * 80, total),
              create_term |->
                  IF st.cache_create > 0 /\ st.cache_read < st.cache_create * 5
                  THEN Frac(st.cache_read * 20, st.cache_create * 5)
                  ELSE Frac(20, 1)]

\* in dollars: cache_read / 1e6 * 3.00 - cache_read / 1e6 * 0.30
estimated_cache_savings(st) == Frac(st.cache_read * 300 - st.cache_read * 30, 100000000)

wasted_cache_tokens_of_read(st) ==
    IF st.cache_read > st.cache_create THEN st.cache_read - st.cache_create ELSE 0

wasted_cache_tokens(st) ==
    IF st.cache_create > st.cache_read THEN st.cache_create - st.cache_read ELSE 0

CacheStats_to_dict(st) ==
    [cache_read |-> st.cache_read, cache_create |-> st.cache_create,
     input_tokens |-> st.input_tokens, output_tokens |-> st.output_tokens,
     sessions |-> st.sessions, cost |-> st.cost,
     total_input_context |-> total_input_context(st),
     cache_hit_rate |-> cache_hit_rate(st),
     cache_efficiency_score |-> cache_efficiency_score(st),
     estimated_savings |-> estimated_cache_savings(st),
     wasted_cache_tokens |-> wasted_cache_tokens(st)]

\* the six "+=" of the loop body on one CacheStats
AddSession(st, session) ==
    [cache_read |-> st.cache_read + session.cache_read,
     cache_create |-> st.cache_create + session.cache_create,
     input_tokens |-> st.input_tokens + session.input_tokens,
     output_tokens |-> st.output_tokens + session.output_tokens,
     sessions |-> st.sessions + 1,
     cost |-> st.cost + session.cost]

\* session.first_msg[:80] if session.first_msg else None
TaskOf(session) ==
    IF session.first_msg.is_none \/ session.first_msg.text = NoStr THEN NoneMsg
    ELSE SomeMsg(StrPrefix(session.first_msg.text, 80))

LowCacheEntry(session) ==
    LET session_total == session.cache_read + session.cache_create + session.input_tokens
    IN  [session_id |-> session.session_id, project |-> session.project,
         cache_hit_rate |-> IF session_total > 0
                            THEN Frac(session.cache_read * 100, session_total)
                            ELSE Frac(0, 1),
         total_context |-> session_total, task |-> TaskOf(session)]

WastedCacheEntry(session) ==
    [session_id |-> session.session_id, project |-> session.project,
     cache_create |-> session.cache_create, cache_read |-> session.cache_read,
     wasted |-> session.cache_create - session.cache_read]

IsWastedCache(session) ==
    /\ session.cache_read + session.cache_create + session.input_tokens > 100000
    /\ session.cache_create > session.cache_read * 2
    /\ session.cache_create > 50000

IsLowCache(session) ==
    /\ session.cache_read + session.cache_create + session.input_tokens > 100000
    /\ FracLt(LowCacheEntry(session).cache_hit_rate, Frac(50, 1))

\* the locals of CacheAnalyzer.analyze before the loop
CacheLocals ==
    [overall |-> CacheStats, by_project |-> <<>>, by_day |-> <<>>,
     sessions_with_low_cache |-> <<>>, sessions_with_wasted_cache |-> <<>>]

\* a loop body that starts the bucket of the day afresh for every session
CacheFold_day_restart(a, session) ==
    LET proj == AddSession(DictGet(a.by_project, session.project, CacheStats), session)
        daily == AddSession(CacheStats, session)
    IN  [overall |-> AddSession(a.overall, session),
         by_project |-> DictSet(a.by_project, session.project, proj),
         by_day |-> IF session.timestamps # <<>>
                    THEN DictSet(a.by_day, DayOf(session), daily) ELSE a.by_day,
         sessions_with_low_cache |->
             IF IsLowCache(session)
             THEN Append(a.sessions_with_low_cache, LowCacheEntry(session))
             ELSE a.sessions_with_low_cache,
         sessions_with_wasted_cache |->
             IF IsWastedCache(session)
             THEN Append(a.sessions_with_wasted_cache, WastedCacheEntry(session))
             ELSE a.sessions_with_wasted_cache]

\* the body of the loop, for one session
CacheFold(a, session) ==
    LET proj == AddSession(DictGet(a.by_project, session.project, CacheStats), session)
        daily == AddSession(DictGet(a.by_day, DayOf(session), CacheStats), session)
    IN  [overall |-> AddSession(a.overall, session),
         by_project |-> DictSet(a.by_project, session.project, proj),
         by_day |-> IF session.timestamps # <<>>
                    THEN DictSet(a.by_day, DayOf(session), daily) ELSE a.by_day,
         sessions_with_low_cache |->
             IF IsLowCache(session)
             THEN Append(a.sessions_with_low_cache, LowCacheEntry(session))
             ELSE a.sessions_with_low_cache,
         sessions_with_wasted_cache |->
             IF IsWastedCache(session)
             THEN Append(a.sessions_with_wasted_cache, WastedCacheEntry(session))
             ELSE a.sessions_with_wasted_cache]

\* CacheAnalyzer._generate_recommendations; n: the number formatted in (0: none)
CacheRecommendations(overall, low_cache, wasted) ==
    LET recommendations ==
            (IF FracLt(cache_hit_rate(overall), Frac(60, 1))
             THEN <<Recommendation("Low cache hit rate.", 0)>>
             ELSE IF FracLt(Frac(80, 1), cache_hit_rate(overall))
             THEN <<Recommendation("Excellent cache hit rate.", 0)>> ELSE <<>>)
            \o (IF FracLt(Frac(1, 1), estimated_cache_savings(overall))
                THEN <<Recommendation("Cache saved approximately.", 0)>> ELSE <<>>)
            \o (IF wasted_cache_tokens(overall) > 1000000
                THEN <<Recommendation("cache tokens may have been wasted.",
                                      wasted_cache_tokens(overall))>> ELSE <<>>)
            \o (IF Len(low_cache) >= 3
                THEN <<Recommendation("sessions had low cache efficiency.", Len(low_cache))>>
                ELSE <<>>)
            \o (IF Len(wasted) >= 2
                THEN <<Recommendation("sessions had significant cache waste.", Len(wasted))>>
                ELSE <<>>)
    IN  IF recommendations # <<>> THEN recommendations
        ELSE <<Recommendation("Cache usage looks healthy.", 0)>>

\* the dict CacheAnalyzer.analyze returns
CacheDocument(target_dates, a) ==
    [period |-> [start |-> target_dates[Len(target_dates)], end |-> target_dates[1],
                 days |-> Len(target_dates)],
     overall |-> CacheStats_to_dict(a.overall),
     by_project |->
         LET ranked == Top(ItemsOf(SortDescending(
                 [j \in 1..Len(a.by_project) |->
                     [key |-> Frac(total_input_context(a.by_project[j].v), 1),
                      item |-> a.by_project[j]]])), 10)
         IN  [j \in 1..Len(ranked) |->
                 [k |-> ranked[j].k, v |-> CacheStats_to_dict(ranked[j].v)]],
     by_day |->
         LET ordered == ItemsOf(SortAscending(
                 [j \in 1..Len(a.by_day) |->
                     [key |-> Frac(DayRank(a.by_day[j].k), 1), item |-> a.by_day[j]]]))
         IN  [j \in 1..Len(ordered) |->
                 [k |-> ordered[j].k, v |-> CacheStats_to_dict(ordered[j].v)]],
     low_cache_sessions |->
         Top(ItemsOf(SortAscending(
             [j \in 1..Len(a.sessions_with_low_cache) |->
                 [key |-> a.sessions_with_low_cache[j].cache_hit_rate,
                  item |-> a.sessions_with_low_cache[j]]])), 10),
     wasted_cache_sessions |->
         Top(ItemsOf(SortDescending(
             [j \in 1..Len(a.sessions_with_wasted_cache) |->
                 [key |-> Frac(a.sessions_with_wasted_cache[j].wasted, 1),
                  item |-> a.sessions_with_wasted_cache[j]]])), 10),
     recommendations |->
         CacheRecommendations(a.overall, a.sessions_with_low_cache,
                              a.sessions_with_wasted_cache)]

\* counters around the thresholds of the two flags
CacheReads == {0, 25001}
CacheCreates == {0, 50000, 50001, 50002, 120001}
CacheInputs == {0, 50000}

\* the k-th session a scan yields, with the given counters
CacheSession(k, r, c, n) ==
    [SessionData(FileNames[((k - 1) % 2) + 1][2], FileNames[((k - 1) % 2) + 1][1]) EXCEPT
        !.cache_read = r, !.cache_create = c, !.input_tokens = n,
        !.output_tokens = 1, !.cost = calculate_cost("claude-3-5-sonnet", n, 1, c, r),
        !.timestamps = <<InDate>>]

CacheSessionLists ==
    UNION {{[k \in 1..len |-> CacheSession(k, t[k][1], t[k][2], t[k][3])] :
               t \in [1..len -> CacheReads \X CacheCreates \X CacheInputs]} :
           len \in 0..MaxSessions}

InitCache ==
    /\ QuietLoader
    /\ \E sessions \in CacheSessionLists :
          probe = [sessions |-> sessions, pos |-> 0, locals |-> CacheLocals,
                   returned |-> FALSE, doc |-> <<>>]

\* one pass of "for session in self.loader.iter_sessions(target_dates)"
CacheConsume ==
    /\ ~probe.returned
    /\ probe.pos < Len(probe.sessions)
    /\ probe' = [probe EXCEPT !.pos = @ + 1,
                              !.locals = CacheFold(@, probe.sessions[probe.pos + 1])]
    /\ OnlyProbe

\* the return statement
CacheFinish ==
    /\ ~probe.returned
    /\ probe.pos = Len(probe.sessions)
    /\ probe' = [probe EXCEPT !.returned = TRUE,
                              !.doc = CacheDocument(TargetDateList, probe.locals)]
    /\ OnlyProbe

NextCache == CacheConsume \/ CacheFinish

SpecCache == InitCache /\ [][NextCache]_vars

----------------------------------------------------------------------------
(* Python floats (IEEE 754 binary64, round to nearest, ties to even), for   *)
(* the quotients and products whose truncation the analyzers keep.  A       *)
(* positive float is its 53 significand bits m, most significant first,     *)
(* and the exponent e of the first bit: its value is m[1] * 2^e + ...       *)

SignificandBits == 53

RECURSIVE IntBits(_)
\* the binary digits of n >= 0, most significant first; none for 0
IntBits(n) == IF n = 0 THEN <<>> ELSE Append(IntBits(n \div 2), n % 2)

RECURSIVE BitsInt(_)
BitsInt(bits) ==
    IF bits = <<>> THEN 0
    ELSE 2 * BitsInt(SubSeq(bits, 1, Len(bits) - 1)) + bits[Len(bits)]

RECURSIVE FracRem(_, _, _)
\* what is left of r / b after its first n binary digits after the point, for
\* 0 <= r < b: n doublings modulo b, the first half of them before the others
\* (the test settles the first half before the second is entered)
FracRem(r, b, n) ==
    IF n = 0 THEN r
    ELSE IF n = 1 THEN (2 * r) % b
    ELSE LET first == FracRem(r, b, n \div 2)
         IN  IF first < b THEN FracRem(first, b, n - n \div 2) ELSE first

RECURSIVE FracBits(_, _, _)
\* the first n binary digits of r / b after the point, for 0 <= r < b
FracBits(r, b, n) ==
    IF n = 0 THEN <<>>
    ELSE IF n = 1 THEN <<(2 * r) \div b>>
    ELSE LET first == FracRem(r, b, n \div 2)
         IN  IF first < b
             THEN FracBits(r, b, n \div 2) \o FracBits(first, b, n - n \div 2)
             ELSE <<>>

RECURSIVE LeadingZeros(_, _)
\* the number of zeros between the point and the first 1 of r / b, for 0 < r < b
LeadingZeros(r, b) == IF 2 * r >= b THEN 0 ELSE 1 + LeadingZeros(2 * r, b)

RECURSIVE ShiftLeft(_, _)
ShiftLeft(r, z) == IF z = 0 THEN r ELSE ShiftLeft(2 * r, z - 1)

\* bits + 1, on the same number of digits, for bits that are not all ones
IncBits(bits) ==
    LET last == CHOOSE j \in 1..Len(bits) :
                    bits[j] = 0 /\ \A q \in (j + 1)..Len(bits) : bits[q] = 1
    IN  [j \in 1..Len(bits) |-> IF j < last THEN bits[j] ELSE IF j = last THEN 1 ELSE 0]

\* the float nearest to the number whose digits, from the one of weight 2^e on,
\* are `digits` (at least 53 of them, the first one 1) followed by a nonzero
\* rest iff sticky
RoundBits(digits, sticky, e) ==
    LET m == SubSeq(digits, 1, SignificandBits)
        guard == IF Len(digits) > SignificandBits THEN digits[SignificandBits + 1] ELSE 0
        rest == sticky \/ \E j \in (SignificandBits + 2)..Len(digits) : digits[j] = 1
        up == guard = 1 /\ (rest \/ m[SignificandBits] = 1)
    IN  IF ~up THEN [m |-> m, e |-> e]
        ELSE IF \A j \in 1..SignificandBits : m[j] = 1
        THEN [m |-> [j \in 1..SignificandBits |-> IF j = 1 THEN 1 ELSE 0], e |-> e + 1]
        ELSE [m |-> IncBits(m), e |-> e]

\* a / b for ints a, b > 0, correctly rounded
FloatDiv(a, b) ==
    LET whole == IntBits(a \div b)
        r == a % b
        n == SignificandBits + 1 - Len(whole)
        z == LeadingZeros(r, b)
        shifted == ShiftLeft(r, z)
    IN  IF whole # <<>>
        THEN RoundBits(whole \o FracBits(r, b, n), FracRem(r, b, n) # 0, Len(whole) - 1)
        ELSE RoundBits(FracBits(shifted, b, SignificandBits + 1),
                       FracRem(shifted, b, SignificandBits + 1) # 0, 0 - (z + 1))

FloatZero == [m |-> [j \in 1..SignificandBits |-> 0], e |-> 0]

\* a / b for ints a >= 0, b > 0: Python's true division, correctly rounded
FloatQuotient(a, b) == IF a = 0 THEN FloatZero ELSE FloatDiv(a, b)

RECURSIVE MulStep(_, _, _)
\* bits * c + carry as Len(bits) digits and the carry out of them; the low
\* half is computed first, its carry goes into the high half
MulStep(bits, c, carry) ==
    IF Len(bits) = 1
    THEN [carry |-> (bits[1] * c + carry) \div 2, digits |-> <<(bits[1] * c + carry) % 2>>]
    ELSE LET half == Len(bits) \div 2
             low == MulStep(SubSeq(bits, half + 1, Len(bits)), c, carry)
             high == MulStep(SubSeq(bits, 1, half), c, low.carry)
         IN  IF low.carry >= 0
             THEN [carry |-> high.carry, digits |-> high.digits \o low.digits]
             ELSE low

\* the digits of bits * c + carry
MulBits(bits, c, carry) ==
    IntBits(MulStep(bits, c, carry).carry) \o MulStep(bits, c, carry).digits

\* x * c for a float x and an int c > 0 (converted to float exactly)
FloatMulInt(x, c) ==
    LET digits == MulBits(x.m, c, 0)
    IN  RoundBits(digits, FALSE, x.e + Len(digits) - SignificandBits)

\* int(x)
FloatTrunc(x) == IF x.e < 0 THEN 0 ELSE BitsInt(SubSeq(x.m, 1, x.e + 1))

RECURSIVE AddStep(_, _, _)
\* a + b + carry as Len(a) digits and the carry out of them, for a and b of
\* the same length; the low half is computed first
AddStep(a, b, carry) ==
    IF Len(a) = 1
    THEN [carry |-> (a[1] + b[1] + carry) \div 2, digits |-> <<(a[1] + b[1] + carry) % 2>>]
    ELSE LET half == Len(a) \div 2
             low == AddStep(SubSeq(a, half + 1, Len(a)), SubSeq(b, half + 1, Len(b)), carry)
             high == AddStep(SubSeq(a, 1, half), SubSeq(b, 1, half), low.carry)
         IN  IF low.carry >= 0
             THEN [carry |-> high.carry, digits |-> high.digits \o low.digits]
             ELSE low

\* the digits of a + b + carry, for a and b of the same length
AddBits(a, b, carry) ==
    IntBits(AddStep(a, b, carry).carry) \o AddStep(a, b, carry).digits

\* x + y for floats x, y >= 0
FloatAdd(x, y) ==
    LET hi == IF x.e >= y.e THEN x ELSE y
        lo == IF x.e >= y.e THEN y ELSE x
        d == hi.e - lo.e
        digits == AddBits(hi.m \o [j \in 1..d |-> 0], [j \in 1..d |-> 0] \o lo.m, 0)
    IN  IF x = FloatZero THEN y
        ELSE IF y = FloatZero THEN x
        ELSE RoundBits(digits, FALSE, hi.e + Len(digits) - (SignificandBits + d))

\* x < n and x > n for a float x >= 0 and an int n > 0
FloatLtInt(x, n) == FloatTrunc(x) < n

FloatGtInt(x, n) ==
    \/ FloatTrunc(x) > n
    \/ /\ FloatTrunc(x) = n
       /\ \E j \in (x.e + 2)..SignificandBits : x.m[j] = 1

----------------------------------------------------------------------------
(* Tool names character by character, for the tests the tool and ROI        *)
(* analyzers make inside a name (startswith, split, lower, in).             *)

\* the characters of a symbol of a name; a symbol not listed is one character
CharsOf(sym) ==
    CASE sym = "Bash" -> <<"B", "a", "s", "h">>
      [] sym = "Read" -> <<"R", "e", "a", "d">>
      [] sym = "Write" -> <<"W", "r", "i", "t", "e">>
      [] sym = "Edit" -> <<"E", "d", "i", "t">>
      [] sym = "Glob" -> <<"G", "l", "o", "b">>
      [] sym = "Grep" -> <<"G", "r", "e", "p">>
      [] sym = "Task" -> <<"T", "a", "s", "k">>
      [] sym = "TaskOutput" -> <<"T", "a", "s", "k", "O", "u", "t", "p", "u", "t">>
      [] sym = "Skill" -> <<"S", "k", "i", "l", "l">>
      [] sym = "WebSearch" -> <<"W", "e", "b", "S", "e", "a", "r", "c", "h">>
      [] sym = "WebFetch" -> <<"W", "e", "b", "F", "e", "t", "c", "h">>
      [] sym = "TodoWrite" -> <<"T", "o", "d", "o", "W", "r", "i", "t", "e">>
      [] sym = "mcp__" -> <<"m", "c", "p", "_", "_">>
      [] sym = "__" -> <<"_", "_">>
      [] sym = "pipedrive" -> <<"p", "i", "p", "e", "d", "r", "i", "v", "e">>
      [] sym = "search_deal" -> <<"s", "e", "a", "r", "c", "h", "_", "d", "e", "a", "l">>
      [] sym = "outlook" -> <<"o", "u", "t", "l", "o", "o", "k">>
      [] sym = "read_email" -> <<"r", "e", "a", "d", "_", "e", "m", "a", "i", "l">>
      [] sym = "db" -> <<"d", "b">>
      [] sym = "query" -> <<"q", "u", "e", "r", "y">>
      [] sym = "supabase" -> <<"s", "u", "p", "a", "b", "a", "s", "e">>
      [] sym = "execute_sql" -> <<"e", "x", "e", "c", "u", "t", "e", "_", "s", "q", "l">>
      [] sym = "n8n" -> <<"n", "8", "n">>
      [] sym = "run" -> <<"r", "u", "n">>
      [] sym = "LS" -> <<"L", "S">>
      [] sym = "edit" -> <<"e", "d", "i", "t">>
      [] sym = "write" -> <<"w", "r", "i", "t", "e">>
      [] sym = "bash" -> <<"b", "a", "s", "h">>
      [] sym = "grep" -> <<"g", "r", "e", "p">>
      [] sym = "glob" -> <<"g", "l", "o", "b">>
      [] sym = "read" -> <<"r", "e", "a", "d">>
      [] sym = "websearch" -> <<"w", "e", "b", "s", "e", "a", "r", "c", "h">>
      [] sym = "webfetch" -> <<"w", "e", "b", "f", "e", "t", "c", "h">>
      [] sym = "mcp__outlook" -> <<"m", "c", "p", "_", "_", "o", "u", "t", "l", "o", "o", "k">>
      [] sym = "email" -> <<"e", "m", "a", "i", "l">>
      [] sym = "mcp__pipedrive" -> <<"m", "c", "p", "_", "_", "p", "i", "p", "e", "d", "r", "i", "v", "e">>
      [] sym = "mcp__ask-maia" -> <<"m", "c", "p", "_", "_", "a", "s", "k", "-", "m", "a", "i", "a">>
      [] sym = "maia" -> <<"m", "a", "i", "a">>
      [] sym = "workflow" -> <<"w", "o", "r", "k", "f", "l", "o", "w">>
      [] sym = "sql" -> <<"s", "q", "l">>
      [] sym = "database" -> <<"d", "a", "t", "a", "b", "a", "s", "e">>
      [] sym = "task" -> <<"t", "a", "s", "k">>
      [] sym = "agent" -> <<"a", "g", "e", "n", "t">>
      [] sym = "unknown" -> <<"u", "n", "k", "n", "o", "w", "n">>
      [] OTHER -> <<sym>>

RECURSIVE Spell(_)
\* the characters of a name
Spell(name) == IF name = <<>> THEN <<>> ELSE CharsOf(Head(name)) \o Spell(Tail(name))

\* c.lower()
LowerChar(c) ==
    CASE c = "A" -> "a"
      [] c = "B" -> "b"
      [] c = "C" -> "c"
      [] c = "D" -> "d"
      [] c = "E" -> "e"
      [] c = "F" -> "f"
      [] c = "G" -> "g"
      [] c = "H" -> "h"
      [] c = "I" -> "i"
      [] c = "J" -> "j"
      [] c = "K" -> "k"
      [] c = "L" -> "l"
      [] c = "M" -> "m"
      [] c = "N" -> "n"
      [] c = "O" -> "o"
      [] c = "P" -> "p"
      [] c = "Q" -> "q"
      [] c = "R" -> "r"
      [] c = "S" -> "s"
      [] c = "T" -> "t"
      [] c = "U" -> "u"
      [] c = "V" -> "v"
      [] c = "W" -> "w"
      [] c = "X" -> "x"
      [] c = "Y" -> "y"
      [] c = "Z" -> "z"
      [] OTHER -> c

\* chars.lower()
LowerChars(chars) == [j \in 1..Len(chars) |-> LowerChar(chars[j])]

\* chars.startswith(prefix)
StartsWith(chars, prefix) ==
    Len(chars) >= Len(prefix) /\ SubSeq(chars, 1, Len(prefix)) = prefix

DoubleUnderscore == <<"_", "_">>

RECURSIVE SplitDunder(_, _)
\* (part + chars).split('__'), scanning from the left
SplitDunder(chars, part) ==
    IF chars = <<>> THEN <<part>>
    ELSE IF StartsWith(chars, DoubleUnderscore)
    THEN <<part>> \o SplitDunder(SubSeq(chars, 3, Len(chars)), <<>>)
    ELSE SplitDunder(Tail(chars), Append(part, Head(chars)))

RECURSIVE JoinDunder(_)
\* '__'.join(parts)
JoinDunder(parts) ==
    IF parts = <<>> THEN <<>>
    ELSE IF Len(parts) = 1 THEN parts[1]
    ELSE parts[1] \o DoubleUnderscore \o JoinDunder(Tail(parts))

----------------------------------------------------------------------------
(* C12, C13 *)

\* the sessions CacheAnalyzer.analyze has consumed
CacheConsumed == {k \in 1..probe.pos : TRUE}

\* C12 as stated: a consumed session is flagged as wasted cache exactly when its
\* cache_create exceeds twice its cache_read and exceeds 50,000, whatever its
\* cache_read, cache_create and input_tokens.
C12_WastedIffCreateDominates ==
    Len(probe.locals.sessions_with_wasted_cache) =
        Cardinality({k \in CacheConsumed :
                        /\ probe.sessions[k].cache_create > 2 * probe.sessions[k].cache_read
                        /\ probe.sessions[k].cache_create > 50000})

\* the CacheStats objects analyze holds: overall, per project and per day
CacheStatsHeld ==
    {probe.locals.overall}
        \cup {probe.locals.by_project[j].v : j \in 1..Len(probe.locals.by_project)}
        \cup {probe.locals.by_day[j].v : j \in 1..Len(probe.locals.by_day)}

\* the derived values of a to_dict are those of the formulas
DerivedAsSpecified(d) ==
    /\ d.total_input_context = d.cache_read + d.cache_create + d.input_tokens
    /\ IF d.total_input_context = 0
       THEN d.cache_hit_rate.num = 0
       ELSE /\ FracLeq(d.cache_hit_rate, Frac(d.cache_read * 100, d.total_input_context))
            /\ FracLeq(Frac(d.cache_read * 100, d.total_input_context), d.cache_hit_rate)
    /\ d.cache_hit_rate.den > 0
    /\ d.cache_hit_rate.num >= 0
    /\ FracLeq(d.cache_hit_rate, Frac(100, 1))
    /\ d.wasted_cache_tokens =
          IF d.cache_create - d.cache_read > 0 THEN d.cache_create - d.cache_read ELSE 0

\* C13: for every CacheStats (its counters are sums of session counters, so never
\* negative), total_input_context is the sum of cache_read, cache_create and
\* input_tokens, cache_hit_rate is cache_read / total_input_context x 100 (0 when
\* the total is 0) and lies in [0, 100], and wasted_cache_tokens is
\* max(0, cache_create - cache_read).
C13_CacheStatsDerived ==
    /\ \A st \in CacheStatsHeld :
          /\ st.cache_read >= 0 /\ st.cache_create >= 0 /\ st.input_tokens >= 0
          /\ DerivedAsSpecified(CacheStats_to_dict(st))
    /\ probe.returned =>
          /\ DerivedAsSpecified(probe.doc.overall)
          /\ \A j \in 1..Len(probe.doc.by_project) : DerivedAsSpecified(probe.doc.by_project[j].v)
          /\ \A j \in 1..Len(probe.doc.by_day) : DerivedAsSpecified(probe.doc.by_day[j].v)

\* a document whose overall hit rate is strictly between 0 and 100 with wasted
\* tokens, next to a project whose context is empty (rate 0)
C13_Witness ==
    /\ probe.returned
    /\ probe.doc.overall.cache_hit_rate.num > 0
    /\ FracLt(probe.doc.overall.cache_hit_rate, Frac(100, 1))
    /\ probe.doc.overall.wasted_cache_tokens > 0
    /\ \E j \in 1..Len(probe.doc.by_project) :
          /\ probe.doc.by_project[j].v.total_input_context = 0
          /\ probe.doc.by_project[j].v.cache_hit_rate.num = 0

----------------------------------------------------------------------------
(* ToolAnalyzer (tool_analyzer.py).                                         *)

\* d[k] += n on a defaultdict(int)
DictAdd(d, k, n) == DictSet(d, k, DictGet(d, k, 0) + n)

\* sum(d.values())
DictTotal(d) == SumSeq([j \in 1..Len(d) |-> d[j].v])

\* a cost share amount / total * count; a cost that sums shares is the sequence
\* of its terms, in the order they were added
ShareTerm(amount, total, count) == [amount |-> amount, total |-> total, count |-> count]

ToolStats(name) ==
    [name |-> name, calls |-> 0, sessions |-> {}, output_tokens |-> 0,
     input_tokens |-> 0, cost |-> <<>>]

ToolStats_to_dict(t) ==
    [name |-> t.name, calls |-> t.calls, sessions |-> Cardinality(t.sessions),
     output_tokens |-> t.output_tokens, input_tokens |-> t.input_tokens, cost |-> t.cost,
     avg_tokens_per_call |-> IF t.calls > 0 THEN Frac(t.output_tokens, t.calls)
                             ELSE Frac(0, 1)]

\* int(tokens_per_call * count) with tokens_per_call = output_tokens / total
TokensPerCallTimesCount(output_tokens, total, count) ==
    IF total > 0 THEN FloatTrunc(FloatMulInt(FloatQuotient(output_tokens, total), count))
    ELSE 0

\* the four "+=" on a ToolStats
CreditTool(t, session, count) ==
    LET total_calls == DictTotal(session.tool_calls)
    IN  [t EXCEPT !.calls = @ + count,
                  !.sessions = @ \cup {session.session_id},
                  !.output_tokens = @ + TokensPerCallTimesCount(session.output_tokens,
                                                                total_calls, count),
                  !.cost = Append(@, ShareTerm(session.cost, total_calls, count))]

\* a taxonomy without the prefix match
OperationOf_by_name(tool_name) ==
    CASE tool_name \in {<<"Read">>, <<"Write">>, <<"Edit">>, <<"Glob">>, <<"Grep">>} ->
            "File Operations"
      [] tool_name = <<"Bash">> -> "Shell Commands"
      [] tool_name \in {<<"Task">>, <<"TaskOutput">>} -> "Agent Spawning"
      [] tool_name = <<"Skill">> -> "Skill Invocations"
      [] tool_name \in {<<"WebSearch">>, <<"WebFetch">>} -> "Web Operations"
      [] tool_name \in {<<"TodoWrite">>} -> "Task Management"
      [] OTHER -> "Other"

\* ToolAnalyzer._categorize_operation
OperationOf(tool_name) ==
    CASE tool_name \in {<<"Read">>, <<"Write">>, <<"Edit">>, <<"Glob">>, <<"Grep">>} ->
            "File Operations"
      [] tool_name = <<"Bash">> -> "Shell Commands"
      [] tool_name \in {<<"Task">>, <<"TaskOutput">>} -> "Agent Spawning"
      [] StartsWith(Spell(tool_name), Spell(<<"mcp__">>)) -> "MCP Calls"
      [] tool_name = <<"Skill">> -> "Skill Invocations"
      [] tool_name \in {<<"WebSearch">>, <<"WebFetch">>} -> "Web Operations"
      [] tool_name \in {<<"TodoWrite">>} -> "Task Management"
      [] OTHER -> "Other"

MCPStats(server) == [server |-> server, tools |-> <<>>]

\* ToolAnalyzer._track_mcp_tool
track_mcp_tool(mcps, tool_name, count, session) ==
    LET parts == SplitDunder(Spell(tool_name), <<>>)
        server_name == parts[2]
        operation == IF Len(parts) > 2 THEN JoinDunder(SubSeq(parts, 3, Len(parts)))
                     ELSE Spell(<<"unknown">>)
        mcp == DictGet(mcps, server_name, MCPStats(server_name))
        tool_stats == DictGet(mcp.tools, operation, ToolStats(operation))
    IN  IF Len(parts) >= 2
        THEN DictSet(mcps, server_name,
                     [mcp EXCEPT !.tools = DictSet(@, operation,
                                                   CreditTool(tool_stats, session, count))])
        ELSE mcps

\* the state of a ToolAnalyzer after _reset; credited: what each pass of the
\* loop of _process_session added to a tool's output_tokens
ToolAnalyzerReset == [tools |-> <<>>, mcps |-> <<>>, operations |-> <<>>, credited |-> <<>>]

\* one pass of the loop of _process_session, for the k-th session of the scan
ProcessTool(self, session, k, tool_name, count) ==
    [tools |-> DictSet(self.tools, tool_name,
                       CreditTool(DictGet(self.tools, tool_name, ToolStats(tool_name)),
                                  session, count)),
     operations |-> DictAdd(self.operations, OperationOf(tool_name), count),
     mcps |-> IF StartsWith(Spell(tool_name), Spell(<<"mcp__">>))
              THEN track_mcp_tool(self.mcps, tool_name, count, session)
              ELSE self.mcps,
     credited |-> Append(self.credited,
                         [session |-> k, name |-> tool_name, count |-> count,
                          tokens |-> TokensPerCallTimesCount(session.output_tokens,
                                         DictTotal(session.tool_calls), count)])]

RECURSIVE ProcessTools(_, _, _, _)
ProcessTools(self, session, k, items) ==
    IF items = <<>> THEN self
    ELSE ProcessTools(ProcessTool(self, session, k, Head(items).k, Head(items).v),
                      session, k, Tail(items))

\* ToolAnalyzer._process_session
process_session(self, session, k) == ProcessTools(self, session, k, session.tool_calls)

MCPStats_total_calls(mcp) ==
    SumSeq([j \in 1..Len(mcp.tools) |-> mcp.tools[j].v.calls])

MCPStats_to_dict(mcp) ==
    [server |-> mcp.server,
     total_calls |-> MCPStats_total_calls(mcp),
     total_output_tokens |-> SumSeq([j \in 1..Len(mcp.tools) |-> mcp.tools[j].v.output_tokens]),
     total_cost |-> [j \in 1..Len(mcp.tools) |-> mcp.tools[j].v.cost],
     tools |-> [j \in 1..Len(mcp.tools) |->
                   [k |-> mcp.tools[j].k, v |-> ToolStats_to_dict(mcp.tools[j].v)]]]

\* ToolAnalyzer._get_top_tools
get_top_tools(self, limit) ==
    LET sorted_tools == ItemsOf(SortDescending(
            [j \in 1..Len(self.tools) |->
                [key |-> Frac(self.tools[j].v.calls, 1), item |-> self.tools[j].v]]))
    IN  [j \in 1..Min(limit, Len(sorted_tools)) |-> ToolStats_to_dict(sorted_tools[j])]

\* ToolAnalyzer._get_mcp_breakdown
get_mcp_breakdown(self) ==
    LET ordered == ItemsOf(SortDescending(
            [j \in 1..Len(self.mcps) |->
                [key |-> Frac(MCPStats_total_calls(self.mcps[j].v), 1), item |-> self.mcps[j]]]))
    IN  [j \in 1..Len(ordered) |-> [k |-> ordered[j].k, v |-> MCPStats_to_dict(ordered[j].v)]]

\* ToolAnalyzer._generate_recommendations; n: the number formatted in (0: none)
ToolRecommendations(self) ==
    LET heavy == SelectSeq(self.mcps, LAMBDA p : MCPStats_total_calls(p.v) > 100)
        expensive == SelectSeq(self.tools,
                         LAMBDA p : /\ p.v.calls > 50
                                    /\ FracLt(Frac(5000, 1), Frac(p.v.output_tokens, p.v.calls)))
        recommendations ==
            [j \in 1..Len(heavy) |->
                Recommendation("High MCP usage.", MCPStats_total_calls(heavy[j].v))]
            \o (IF DictGet(self.operations, "File Operations", 0) > 200
                THEN <<Recommendation("Heavy file operations.",
                                      DictGet(self.operations, "File Operations", 0))>>
                ELSE <<>>)
            \o (IF DictGet(self.operations, "Agent Spawning", 0) > 50
                THEN <<Recommendation("Frequent agent spawning.",
                                      DictGet(self.operations, "Agent Spawning", 0))>>
                ELSE <<>>)
            \o [j \in 1..Len(expensive) |->
                   Recommendation("Expensive tool.", expensive[j].v.calls)]
    IN  IF recommendations # <<>> THEN recommendations
        ELSE <<Recommendation("No optimization issues detected.", 0)>>

\* the locals of ToolAnalyzer.analyze (ROIAnalyzer.analyze has the same three)
TotalsLocals == [total_output |-> 0, total_cost |-> 0, session_count |-> 0]

AddToTotals(a, session) ==
    [total_output |-> a.total_output + session.output_tokens,
     total_cost |-> a.total_cost + session.cost,
     session_count |-> a.session_count + 1]

PeriodOf(target_dates) ==
    [start |-> target_dates[Len(target_dates)], end |-> target_dates[1],
     days |-> Len(target_dates)]

\* the dict ToolAnalyzer.analyze returns
ToolDocument(target_dates, a, self) ==
    [period |-> PeriodOf(target_dates),
     summary |-> [total_sessions |-> a.session_count, total_output_tokens |-> a.total_output,
                  total_cost |-> a.total_cost],
     tools |-> get_top_tools(self, 20),
     mcps |-> get_mcp_breakdown(self),
     operations |-> self.operations,
     recommendations |-> ToolRecommendations(self)]

----------------------------------------------------------------------------
(* SkillAnalyzer (skill_analyzer.py).                                       *)

SkillStats(name) ==
    [name |-> name, invocations |-> 0, sessions |-> {}, total_output_tokens |-> 0,
     total_cost |-> <<>>, projects |-> {}]

\* SkillStats.to_dict, with list(self.projects) in the order projects_list
SkillStats_to_dict(st, projects_list) ==
    [name |-> st.name, invocations |-> st.invocations,
     sessions |-> Cardinality(st.sessions),
     total_output_tokens |-> st.total_output_tokens, total_cost |-> st.total_cost,
     avg_tokens_per_invocation |->
         IF st.invocations > 0 THEN Frac(st.total_output_tokens, st.invocations)
         ELSE Frac(0, 1),
     avg_cost_per_invocation |-> [terms |-> st.total_cost, invocations |-> st.invocations],
     projects |-> projects_list]

\* self.skills and the locals of SkillAnalyzer.analyze before the loop;
\* credited: what each pass of the inner loop added to a skill's tokens
SkillLocals ==
    [skills |-> <<>>, total_invocations |-> 0, total_tokens |-> 0, total_cost |-> <<>>,
     sessions_with_skills |-> 0, credited |-> <<>>]

\* one pass of "for skill_name, count in session.skill_calls.items()"
ProcessSkill(a, session, k, skill_name, count) ==
    LET total_skill_calls == DictTotal(session.skill_calls)
        tokens == TokensPerCallTimesCount(session.output_tokens, total_skill_calls, count)
        share == ShareTerm(session.cost, total_skill_calls, count)
        stats == DictGet(a.skills, skill_name, SkillStats(skill_name))
    IN  [a EXCEPT
            !.skills = DictSet(@, skill_name,
                          [stats EXCEPT !.invocations = @ + count,
                                        !.sessions = @ \cup {session.session_id},
                                        !.projects = @ \cup {session.project},
                                        !.total_output_tokens = @ + tokens,
                                        !.total_cost = Append(@, share)]),
            !.total_invocations = @ + count,
            !.total_tokens = @ + tokens,
            !.total_cost = Append(@, share),
            !.credited = Append(@, [session |-> k, name |-> skill_name, count |-> count,
                                    tokens |-> tokens])]

RECURSIVE ProcessSkills(_, _, _, _)
ProcessSkills(a, session, k, items) ==
    IF items = <<>> THEN a
    ELSE ProcessSkills(ProcessSkill(a, session, k, Head(items).k, Head(items).v),
                       session, k, Tail(items))

\* the body of the loop of SkillAnalyzer.analyze, for the k-th session
SkillFold(a, session, k) ==
    IF session.skill_calls = <<>> THEN a
    ELSE ProcessSkills([a EXCEPT !.sessions_with_skills = @ + 1], session, k,
                       session.skill_calls)

\* SkillAnalyzer._generate_recommendations; n: the number formatted in (0: none)
SkillRecommendations(skills) ==
    LET rarely_used == SelectSeq(skills, LAMBDA p : p.v.invocations = 1)
        expensive == SelectSeq(skills,
                        LAMBDA p : /\ p.v.invocations >= 3
                                   /\ FracLt(Frac(50000, 1),
                                             Frac(p.v.total_output_tokens, p.v.invocations)))
        efficient == SelectSeq(skills,
                        LAMBDA p : /\ p.v.invocations >= 5
                                   /\ FracLt(Frac(p.v.total_output_tokens, p.v.invocations),
                                             Frac(10000, 1)))
        top == ItemsOf(SortDescending(
                   [j \in 1..Len(efficient) |->
                       [key |-> Frac(efficient[j].v.invocations, 1), item |-> efficient[j].v]]))
        recommendations ==
            (IF Len(rarely_used) >= 3
             THEN <<Recommendation("skills used only once.", Len(rarely_used))>> ELSE <<>>)
            \o [j \in 1..Len(expensive) |->
                   Recommendation("Skill is expensive.", expensive[j].v.invocations)]
            \o (IF efficient # <<>>
                THEN <<Recommendation("most efficient frequently-used skill.",
                                      top[1].invocations)>> ELSE <<>>)
    IN  IF recommendations # <<>> THEN recommendations
        ELSE <<Recommendation("No skill optimization issues detected.", 0)>>

\* the dict SkillAnalyzer.analyze returns; orders[j] is the order in which the
\* set of projects of the j-th skill is iterated
SkillDocument(target_dates, a, orders) ==
    LET listed == [j \in 1..Len(a.skills) |->
                      [stats |-> a.skills[j].v, projects_list |-> orders[j]]]
        ranking == ItemsOf(SortDescending(
                       [j \in 1..Len(listed) |->
                           [key |-> Frac(listed[j].stats.invocations, 1), item |-> listed[j]]]))
        significant == SelectSeq(listed, LAMBDA x : x.stats.invocations >= 3)
        efficiency == ItemsOf(SortAscending(
                       [j \in 1..Len(significant) |->
                           [key |-> Frac(significant[j].stats.total_output_tokens,
                                         significant[j].stats.invocations),
                            item |-> significant[j]]]))
    IN  [period |-> PeriodOf(target_dates),
         summary |-> [total_skills |-> Len(a.skills),
                      total_invocations |-> a.total_invocations,
                      sessions_with_skills |-> a.sessions_with_skills,
                      total_tokens |-> a.total_tokens, total_cost |-> a.total_cost],
         skills |-> [j \in 1..Len(ranking) |->
                        SkillStats_to_dict(ranking[j].stats, ranking[j].projects_list)],
         by_efficiency |-> [j \in 1..Len(efficiency) |->
                        SkillStats_to_dict(efficiency[j].stats, efficiency[j].projects_list)],
         recommendations |-> SkillRecommendations(a.skills)]

\* the iteration orders the sets of projects of the skills can have
ProjectOrders(skills) ==
    {orders \in [1..Len(skills) -> UNION {ListsOfSet(skills[j].v.projects) : j \in 1..Len(skills)}] :
        \A j \in 1..Len(skills) : orders[j] \in ListsOfSet(skills[j].v.projects)}

----------------------------------------------------------------------------
(* ROIAnalyzer (roi_analyzer.py).                                           *)

\* DOMAIN_PATTERNS, in the order of the dict
DOMAIN_PATTERNS ==
    << [domain |-> "coding",
        patterns |-> <<"edit", "write", "bash", "grep", "glob", "read">>],
       [domain |-> "research", patterns |-> <<"websearch", "webfetch">>],
       [domain |-> "communication", patterns |-> <<"mcp__outlook", "email">>],
       [domain |-> "crm", patterns |-> <<"mcp__pipedrive">>],
       [domain |-> "meetings", patterns |-> <<"mcp__ask-maia", "maia">>],
       [domain |-> "automation", patterns |-> <<"n8n", "workflow">>],
       [domain |-> "data", patterns |-> <<"sql", "database", "supabase">>],
       [domain |-> "agents", patterns |-> <<"task", "agent">>] >>

\* any pattern of the entry is in tool_lower
DomainMatches(entry, tool_lower) ==
    \E j \in 1..Len(entry.patterns) : StrContains(tool_lower, CharsOf(entry.patterns[j]))

\* the last matching domain instead of the first
get_domain_last_match(tool_name) ==
    LET tool_lower == LowerChars(Spell(tool_name))
        hits == SelectSeq(DOMAIN_PATTERNS, LAMBDA entry : DomainMatches(entry, tool_lower))
    IN  IF hits = <<>> THEN "other" ELSE hits[Len(hits)].domain

\* ROIAnalyzer._get_domain
get_domain(tool_name) ==
    LET tool_lower == LowerChars(Spell(tool_name))
        hits == SelectSeq(DOMAIN_PATTERNS, LAMBDA entry : DomainMatches(entry, tool_lower))
    IN  IF hits = <<>> THEN "other" ELSE hits[1].domain

DomainStats(name) ==
    [name |-> name, sessions |-> {}, tool_calls |-> 0, output_tokens |-> 0, cost |-> <<>>]

DomainStats_to_dict(d) ==
    [name |-> d.name, sessions |-> Cardinality(d.sessions), tool_calls |-> d.tool_calls,
     output_tokens |-> d.output_tokens, cost |-> d.cost,
     tokens_per_call |-> IF d.tool_calls > 0 THEN Frac(d.output_tokens, d.tool_calls)
                         ELSE Frac(0, 1)]

ProjectROI(name) ==
    [name |-> name, sessions |-> 0, output_tokens |-> 0, cost |-> 0, domains |-> <<>>]

ProjectROI_to_dict(pr) ==
    [name |-> pr.name, sessions |-> pr.sessions, output_tokens |-> pr.output_tokens,
     cost |-> pr.cost,
     tokens_per_session |-> IF pr.sessions > 0 THEN Frac(pr.output_tokens, pr.sessions)
                            ELSE Frac(0, 1),
     cost_per_session |-> IF pr.sessions > 0 THEN Frac(pr.cost, pr.sessions) ELSE Frac(0, 1),
     primary_domains |->
         Top(ItemsOf(SortDescending(
             [j \in 1..Len(pr.domains) |->
                 [key |-> Frac(pr.domains[j].v, 1), item |-> pr.domains[j]]])), 3)]

\* int(token_share) with token_share = output_tokens * (count / total_calls)
TokenShare(output_tokens, total, count) ==
    IF total > 0 THEN FloatTrunc(FloatMulInt(FloatQuotient(count, total), output_tokens))
    ELSE 0

\* the state of a ROIAnalyzer after _reset; credited: what each pass of the
\* loop of _classify_session added to a domain's output_tokens
ROIAnalyzerReset == [domains |-> <<>>, projects |-> <<>>, credited |-> <<>>]

\* one pass of "for tool_name, count in session.tool_calls.items()"
ClassifyTool(self, session, k, tool_name, count) ==
    LET domain == get_domain(tool_name)
        total_calls == DictTotal(session.tool_calls)
        tokens == TokenShare(session.output_tokens, total_calls, count)
        stats == DictGet(self.domains, domain, DomainStats(domain))
        proj == DictGet(self.projects, session.project, ProjectROI(session.project))
    IN  [domains |-> DictSet(self.domains, domain,
                        [stats EXCEPT !.sessions = @ \cup {session.session_id},
                                      !.tool_calls = @ + count,
                                      !.output_tokens = @ + tokens,
                                      !.cost = Append(@, ShareTerm(session.cost, total_calls,
                                                                   count))]),
         projects |-> DictSet(self.projects, session.project,
                        [proj EXCEPT !.domains = DictAdd(@, domain, count)]),
         credited |-> Append(self.credited,
                             [session |-> k, name |-> tool_name, count |-> count,
                              domain |-> domain, tokens |-> tokens])]

RECURSIVE ClassifyTools(_, _, _, _)
ClassifyTools(self, session, k, items) ==
    IF items = <<>> THEN self
    ELSE ClassifyTools(ClassifyTool(self, session, k, Head(items).k, Head(items).v),
                       session, k, Tail(items))

\* ROIAnalyzer._classify_session, for the k-th session of the scan
classify_session(self, session, k) ==
    LET proj == DictGet(self.projects, session.project, ProjectROI(session.project))
        tracked == [self EXCEPT !.projects =
                       DictSet(@, session.project,
                               [proj EXCEPT !.sessions = @ + 1,
                                            !.output_tokens = @ + session.output_tokens,
                                            !.cost = @ + session.cost])]
    IN  ClassifyTools(tracked, session, k, session.tool_calls)

\* domain_pcts of _analyze_value: (d.output_tokens / total_tokens * 100), a float,
\* or the int 0
DomainPcts(domains) ==
    LET tokens_of_all == SumSeq([j \in 1..Len(domains) |-> domains[j].v.output_tokens])
    IN  [j \in 1..Len(domains) |->
            [k |-> domains[j].v.name,
             v |-> IF tokens_of_all > 0
                   THEN FloatMulInt(FloatQuotient(domains[j].v.output_tokens, tokens_of_all), 100)
                   ELSE FloatZero]]

RECURSIVE PctSum(_, _)
\* sum(domain_pcts.get(d, 0) for d in names), added from the left
PctSum(domain_pcts, names) ==
    IF names = <<>> THEN FloatZero
    ELSE FloatAdd(PctSum(domain_pcts, SubSeq(names, 1, Len(names) - 1)),
                  DictGet(domain_pcts, names[Len(names)], FloatZero))

HighValueDomains == <<"coding", "automation", "data">>

SupportDomains == <<"research", "communication", "meetings">>

\* ROIAnalyzer._calculate_balance_score
calculate_balance_score(domain_pcts) ==
    LET high_value == PctSum(domain_pcts, HighValueDomains)
        support == PctSum(domain_pcts, SupportDomains)
        score == 100 - (IF FloatLtInt(high_value, 30) THEN 20 ELSE 0)
                     - (IF FloatGtInt(high_value, 80) THEN 10 ELSE 0)
                     - (IF FloatGtInt(support, 50) THEN 15 ELSE 0)
        capped == IF score < 100 THEN score ELSE 100
    IN  IF capped > 0 THEN capped ELSE 0

\* ROIAnalyzer._analyze_value
analyze_value(self) ==
    [domain_percentages |-> DomainPcts(self.domains),
     high_value_percentage |-> PctSum(DomainPcts(self.domains), HighValueDomains),
     support_percentage |-> PctSum(DomainPcts(self.domains), SupportDomains),
     balance_score |-> calculate_balance_score(DomainPcts(self.domains))]

\* ROIAnalyzer._generate_recommendations; n: the number formatted in (0: none)
ROIRecommendations(self) ==
    LET value_analysis == analyze_value(self)
        costly == Top(ItemsOf(SortDescending(
                      [j \in 1..Len(self.projects) |->
                          [key |-> Frac(self.projects[j].v.cost, 1),
                           item |-> self.projects[j].v]])), 3)
        over == SelectSeq(costly, LAMBDA pr : pr.cost > 10000000)
        recommendations ==
            (IF FloatGtInt(value_analysis.high_value_percentage, 70)
             THEN <<Recommendation("Great focus!", 0)>>
             ELSE IF FloatLtInt(value_analysis.high_value_percentage, 40)
             THEN <<Recommendation("Consider shifting focus.", 0)>> ELSE <<>>)
            \o [j \in 1..Len(over) |-> Recommendation("Project cost.", over[j].cost)]
            \o (IF DictGet(self.domains, "agents", DomainStats("agents")).output_tokens > 500000
                THEN <<Recommendation("Agent spawning used.",
                          DictGet(self.domains, "agents", DomainStats("agents")).output_tokens)>>
                ELSE <<>>)
    IN  IF recommendations # <<>> THEN recommendations
        ELSE <<Recommendation("Token ROI looks balanced.", 0)>>

\* the dict ROIAnalyzer.analyze returns
ROIDocument(target_dates, a, self) ==
    [period |-> PeriodOf(target_dates),
     summary |-> [total_sessions |-> a.session_count, total_output_tokens |-> a.total_output,
                  total_cost |-> a.total_cost,
                  avg_cost_per_session |-> IF a.session_count > 0
                                           THEN Frac(a.total_cost, a.session_count)
                                           ELSE Frac(0, 1)],
     by_domain |->
         LET sorted_domains == ItemsOf(SortDescending(
                 [j \in 1..Len(self.domains) |->
                     [key |-> Frac(self.domains[j].v.output_tokens, 1),
                      item |-> self.domains[j].v]]))
         IN  [j \in 1..Len(sorted_domains) |-> DomainStats_to_dict(sorted_domains[j])],
     by_project |->
         LET sorted_projects == Top(ItemsOf(SortDescending(
                 [j \in 1..Len(self.projects) |->
                     [key |-> Frac(self.projects[j].v.cost, 1),
                      item |-> self.projects[j].v]])), 15)
         IN  [j \in 1..Len(sorted_projects) |-> ProjectROI_to_dict(sorted_projects[j])],
     value_analysis |-> analyze_value(self),
     recommendations |-> ROIRecommendations(self)]

----------------------------------------------------------------------------
(* The three analyzers that attribute tokens, run one after the other over  *)
(* the same data root as InsightsReport.generate_full_report runs them       *)
(* (report.py): probe.tool, probe.skill and probe.roi are the analyze calls  *)
(* in progress.                                                             *)

Pipedrive == <<"mcp__", "pipedrive", "__", "search_deal">>
Outlook == <<"mcp__", "outlook", "__", "read_email">>
Supabase == <<"mcp__", "supabase", "__", "execute_sql">>
N8n == <<"mcp__", "n8n", "__", "run">>

\* the k-th session of a scan, with the tool calls `calls`; its Skill calls
\* are one invocation of "commit" and the others of "review"
AttributionSession(k, calls, output_tokens) ==
    LET skill == DictGet(calls, <<"Skill">>, 0)
    IN  [SessionData(FileNames[((k - 1) % 2) + 1][2], FileNames[((k - 1) % 2) + 1][1]) EXCEPT
            !.tool_calls = calls,
            !.mcp_calls = SelectSeq(calls, LAMBDA p : StartsWith(Spell(p.k), Spell(<<"mcp__">>))),
            !.skill_calls = DictOf(<<[k |-> "commit", v |-> Min(skill, 1)],
                                     [k |-> "review", v |-> skill - Min(skill, 1)]>>),
            !.input_tokens = 1,
            !.output_tokens = output_tokens,
            !.cost = calculate_cost("claude-3-5-sonnet", 1, output_tokens, 0, 0),
            !.timestamps = <<InDate>>]

\* the tool calls and output tokens of the sessions of the scans
AttributionInputs ==
    { [calls |-> <<[k |-> Bash, v |-> 7]>>, output_tokens |-> 61],
      [calls |-> <<[k |-> Bash, v |-> 7], [k |-> Pipedrive, v |-> 3]>>, output_tokens |-> 90],
      [calls |-> <<[k |-> Pipedrive, v |-> 3], [k |-> <<"Skill">>, v |-> 2]>>,
       output_tokens |-> 61],
      [calls |-> <<>>, output_tokens |-> 61],
      [calls |-> <<[k |-> Bash, v |-> 1], [k |-> N8n, v |-> 20], [k |-> <<"LS">>, v |-> 49]>>,
       output_tokens |-> 70],
      [calls |-> <<[k |-> Outlook, v |-> 1], [k |-> <<"TodoWrite">>, v |-> 1],
                   [k |-> Task, v |-> 1], [k |-> <<"WebSearch">>, v |-> 1],
                   [k |-> Supabase, v |-> 1]>>,
       output_tokens |-> 50] }

AttributionSessionLists ==
    UNION {{[k \in 1..len |-> AttributionSession(k, t[k].calls, t[k].output_tokens)] :
               t \in [1..len -> AttributionInputs]} :
           len \in 0..MaxSessions}

\* the three analyze calls, not started
IdleAnalyzers(sessions) ==
    [sessions |-> sessions,
     tool |-> [pos |-> 0, totals |-> TotalsLocals, self |-> ToolAnalyzerReset,
               returned |-> FALSE, doc |-> <<>>],
     skill |-> [pos |-> 0, locals |-> SkillLocals, returned |-> FALSE, doc |-> <<>>],
     roi |-> [pos |-> 0, totals |-> TotalsLocals, self |-> ROIAnalyzerReset,
              returned |-> FALSE, doc |-> <<>>]]

InitAttribution ==
    /\ QuietLoader
    /\ \E sessions \in AttributionSessionLists : probe = IdleAnalyzers(sessions)

\* one pass of the loop of ToolAnalyzer.analyze
ToolConsume ==
    /\ ~probe.tool.returned
    /\ probe.tool.pos < Len(probe.sessions)
    /\ LET k == probe.tool.pos + 1
       IN  probe' = [probe EXCEPT
                        !.tool.pos = k,
                        !.tool.totals = AddToTotals(@, probe.sessions[k]),
                        !.tool.self = process_session(@, probe.sessions[k], k)]
    /\ OnlyProbe

\* the return statement of ToolAnalyzer.analyze
ToolFinish ==
    /\ ~probe.tool.returned
    /\ probe.tool.pos = Len(probe.sessions)
    /\ probe' = [probe EXCEPT
                    !.tool.returned = TRUE,
                    !.tool.doc = ToolDocument(TargetDateList, probe.tool.totals,
                                              probe.tool.self)]
    /\ OnlyProbe

\* one pass of the loop of SkillAnalyzer.analyze, which generate_full_report calls after
\* ToolAnalyzer.analyze has returned
SkillConsume ==
    /\ probe.tool.returned
    /\ ~probe.skill.returned
    /\ probe.skill.pos < Len(probe.sessions)
    /\ LET k == probe.skill.pos + 1
       IN  probe' = [probe EXCEPT
                        !.skill.pos = k,
                        !.skill.locals = SkillFold(@, probe.sessions[k], k)]
    /\ OnlyProbe

\* the return statement of SkillAnalyzer.analyze
SkillFinish ==
    /\ probe.tool.returned
    /\ ~probe.skill.returned
    /\ probe.skill.pos = Len(probe.sessions)
    /\ \E orders \in ProjectOrders(probe.skill.locals.skills) :
          probe' = [probe EXCEPT
                       !.skill.returned = TRUE,
                       !.skill.doc = SkillDocument(TargetDateList, probe.skill.locals, orders)]
    /\ OnlyProbe

\* one pass of the loop of ROIAnalyzer.analyze, which generate_full_report calls after
\* SkillAnalyzer.analyze has returned
ROIConsume ==
    /\ probe.skill.returned
    /\ ~probe.roi.returned
    /\ probe.roi.pos < Len(probe.sessions)
    /\ LET k == probe.roi.pos + 1
       IN  probe' = [probe EXCEPT
                        !.roi.pos = k,
                        !.roi.totals = AddToTotals(@, probe.sessions[k]),
                        !.roi.self = classify_session(@, probe.sessions[k], k)]
    /\ OnlyProbe

\* the return statement of ROIAnalyzer.analyze
ROIFinish ==
    /\ probe.skill.returned
    /\ ~probe.roi.returned
    /\ probe.roi.pos = Len(probe.sessions)
    /\ probe' = [probe EXCEPT
                    !.roi.returned = TRUE,
                    !.roi.doc = ROIDocument(TargetDateList, probe.roi.totals, probe.roi.self)]
    /\ OnlyProbe

\* generate_full_report: "tools", then "skills", then "roi"
NextAttribution ==
    \/ ToolConsume
    \/ ToolFinish
    \/ SkillConsume
    \/ SkillFinish
    \/ ROIConsume
    \/ ROIFinish

SpecAttribution == InitAttribution /\ [][NextAttribution]_vars

----------------------------------------------------------------------------
(* C14 *)

\* the exact share of the claim
ExactShare(session, total, count) == (session.output_tokens * count) \div total

\* C14 as stated: whatever a pass of ToolAnalyzer, SkillAnalyzer or ROIAnalyzer
\* credits to a name called count times in a session is the integer part of
\* output_tokens x count / (the session's total tool, or skill, call count), and
\* ToolAnalyzer and ROIAnalyzer credit the same tokens for the same session and
\* tool name.
C14_ProportionalAttribution ==
    /\ \A n \in 1..Len(probe.tool.self.credited) :
          LET c == probe.tool.self.credited[n]
          IN  c.tokens = ExactShare(probe.sessions[c.session],
                                    DictTotal(probe.sessions[c.session].tool_calls), c.count)
    /\ \A n \in 1..Len(probe.skill.locals.credited) :
          LET c == probe.skill.locals.credited[n]
          IN  c.tokens = ExactShare(probe.sessions[c.session],
                                    DictTotal(probe.sessions[c.session].skill_calls), c.count)
    /\ \A n \in 1..Len(probe.roi.self.credited) :
          LET c == probe.roi.self.credited[n]
          IN  c.tokens = ExactShare(probe.sessions[c.session],
                                    DictTotal(probe.sessions[c.session].tool_calls), c.count)
    /\ \A n \in 1..Len(probe.tool.self.credited), q \in 1..Len(probe.roi.self.credited) :
          (/\ probe.tool.self.credited[n].session = probe.roi.self.credited[q].session
           /\ probe.tool.self.credited[n].name = probe.roi.self.credited[q].name)
             => probe.tool.self.credited[n].tokens = probe.roi.self.credited[q].tokens

----------------------------------------------------------------------------
(* C15 *)

\* the domains in the order the claim declares them
DeclaredOrder ==
    <<"coding", "research", "communication", "crm", "meetings", "automation", "data",
      "agents">>

\* the positions in the table whose domain has a pattern inside the lowercased name
MatchingPositions(tool_name) ==
    {j \in 1..Len(DOMAIN_PATTERNS) :
        \E q \in 1..Len(DOMAIN_PATTERNS[j].patterns) :
            StrContains(LowerChars(Spell(tool_name)), CharsOf(DOMAIN_PATTERNS[j].patterns[q]))}

\* C15: the table lists the domains in the declared order, and every tool name
\* ROIAnalyzer classifies gets the domain at the least matching position of the
\* table, "other" when no position matches; mcp__pipedrive__search_deal gets
\* "crm".
C15_FirstMatchingDomain ==
    /\ [j \in 1..Len(DOMAIN_PATTERNS) |-> DOMAIN_PATTERNS[j].domain] = DeclaredOrder
    /\ \A n \in 1..Len(probe.roi.self.credited) :
          LET c == probe.roi.self.credited[n]
              hits == MatchingPositions(c.name)
          IN  /\ hits = {} => c.domain = "other"
              /\ hits # {} =>
                    c.domain = DeclaredOrder[CHOOSE j \in hits : \A q \in hits : j <= q]
              /\ c.name = Pipedrive => c.domain = "crm"

\* a returned analysis that classified the pipedrive tool, a tool that matches
\* two domains (read_email of outlook: coding by "read", communication by
\* "mcp__outlook") and a tool that matches none
C15_Witness ==
    /\ probe.roi.returned
    /\ \E n \in 1..Len(probe.roi.self.credited) :
          /\ probe.roi.self.credited[n].name = Pipedrive
          /\ probe.roi.self.credited[n].domain = "crm"
    /\ \E n \in 1..Len(probe.roi.self.credited) :
          /\ probe.roi.self.credited[n].name = Outlook
          /\ Cardinality(MatchingPositions(Outlook)) = 2
          /\ probe.roi.self.credited[n].domain = "coding"
    /\ \E n \in 1..Len(probe.roi.self.credited) :
          /\ MatchingPositions(probe.roi.self.credited[n].name) = {}
          /\ probe.roi.self.credited[n].domain = "other"

----------------------------------------------------------------------------
(* C16 *)

\* the tokens attributed to the domains `names`
TokensOfDomains(domains, names) ==
    SumSeq([j \in 1..Len(domains) |->
               IF \E q \in 1..Len(names) : names[q] = domains[j].k
               THEN domains[j].v.output_tokens ELSE 0])

\* the score of the claim, from the shares as exact quotients of attributed
\* tokens (a share of nothing is 0)
SpecifiedBalanceScore(domains) ==
    LET total == SumSeq([j \in 1..Len(domains) |-> domains[j].v.output_tokens])
        high == TokensOfDomains(domains, <<"coding", "automation", "data">>)
        support == TokensOfDomains(domains, <<"research", "communication", "meetings">>)
        score == 100 - (IF 100 * high < 30 * total \/ total = 0 THEN 20 ELSE 0)
                     - (IF 100 * high > 80 * total THEN 10 ELSE 0)
                     - (IF 100 * support > 50 * total THEN 15 ELSE 0)
    IN  IF score > 100 THEN 100 ELSE IF score < 0 THEN 0 ELSE score

\* C16 as stated: the balance score of every returned ROI analysis is 100, less
\* 20 if the high-value share of the attributed tokens is below 30 percent, less
\* 10 if it is above 80 percent, less 15 if the support share is above 50
\* percent, kept within 0..100; also when there were no sessions.
C16_BalanceScore ==
    probe.roi.returned =>
        probe.roi.doc.value_analysis.balance_score = SpecifiedBalanceScore(probe.roi.self.domains)

----------------------------------------------------------------------------
(* UsagePredictor (predictor.py).  The floats of the predictor are kept as  *)
(* exact quotients of integers: a mean is Frac(sum, count), a comparison of *)
(* floats is the comparison of the quotients.                               *)

\* the most day buckets of a history
MaxDays == 7

DateSymbols == <<"D1", "D2", "D3", "D4", "D5", "D6", "D7", "D8", "D9">>

DailyStats(date) ==
    [date |-> date, sessions |-> 0, output_tokens |-> 0, input_tokens |-> 0,
     cache_read |-> 0, cost |-> 0]

\* one pass of the loop of UsagePredictor.analyze
AddToDay(daily_stats, session) ==
    IF session.timestamps = <<>> THEN daily_stats
    ELSE LET day == DayOf(session)
             stats == DictGet(daily_stats, day, DailyStats(day))
         IN  DictSet(daily_stats, day,
                     [stats EXCEPT !.sessions = @ + 1,
                                   !.output_tokens = @ + session.output_tokens,
                                   !.input_tokens = @ + session.input_tokens,
                                   !.cache_read = @ + session.cache_read,
                                   !.cost = @ + session.cost])

\* [daily_stats[d].to_dict() for d in sorted(daily_stats.keys())]
HistoryOf(daily_stats) ==
    ItemsOf(SortAscending([j \in 1..Len(daily_stats) |->
                              [key |-> Frac(DayRank(daily_stats[j].k), 1),
                               item |-> daily_stats[j].v]]))

SessionsOf(days) == SumSeq([j \in 1..Len(days) |-> days[j].sessions])

TokensOf(days) == SumSeq([j \in 1..Len(days) |-> days[j].output_tokens])

CostOf(days) == SumSeq([j \in 1..Len(days) |-> days[j].cost])

\* (second - first) / first * 100 if first > 0 else 0, for the means
\* first = first_sum / first_len and second = second_sum / second_len
ChangePct(first_sum, first_len, second_sum, second_len) ==
    IF first_sum > 0
    THEN Frac((second_sum * first_len - first_sum * second_len) * 100, first_sum * second_len)
    ELSE Frac(0, 1)

\* a short history reported as a stable trend
calculate_trends_stable(history) ==
    [direction |-> "stable", sessions_change_pct |-> Frac(0, 1),
     tokens_change_pct |-> Frac(0, 1), cost_change_pct |-> Frac(0, 1)]

\* UsagePredictor._calculate_trends
calculate_trends(history) ==
    IF Len(history) < 7
    THEN [direction |-> "insufficient_data", sessions_change_pct |-> Frac(0, 1),
          tokens_change_pct |-> Frac(0, 1), cost_change_pct |-> Frac(0, 1)]
    ELSE LET mid == Len(history) \div 2
             first_half == SubSeq(history, 1, mid)
             second_half == SubSeq(history, mid + 1, Len(history))
             tokens_change == ChangePct(TokensOf(first_half), Len(first_half),
                                        TokensOf(second_half), Len(second_half))
         IN  [direction |-> IF tokens_change.num > 10 * tokens_change.den THEN "increasing"
                            ELSE IF tokens_change.num < (0 - 10) * tokens_change.den
                            THEN "decreasing"
                            ELSE "stable",
              sessions_change_pct |-> ChangePct(SessionsOf(first_half), Len(first_half),
                                                SessionsOf(second_half), Len(second_half)),
              tokens_change_pct |-> tokens_change,
              cost_change_pct |-> ChangePct(CostOf(first_half), Len(first_half),
                                            CostOf(second_half), Len(second_half))]

weights == <<1, 1, 2, 2, 3, 3, 4>>

\* the trend applied in full, without the dampening by 0.5
TrendFactor_undamped(pct) == Frac(100 * pct.den + pct.num, 100 * pct.den)

\* 1 + (tokens_change_pct / 100 * 0.5)
TrendFactor(pct) == Frac(200 * pct.den + pct.num, 200 * pct.den)

\* UsagePredictor._calculate_variance, as a quotient
calculate_variance(values) ==
    IF Len(values) < 2 THEN Frac(0, 1)
    ELSE Frac(Len(values) * SumSeq([j \in 1..Len(values) |-> values[j] * values[j]])
                  - SumSeq(values) * SumSeq(values),
              Len(values) * Len(values))

\* cv < bound_tenths / 10 for cv = variance ** 0.5 / (weighted / total_weight):
\* both sides are squared
CvBelow(variance, weighted, total_weight, bound_tenths) ==
    IF weighted > 0
    THEN 100 * variance.num * (total_weight * total_weight)
             < bound_tenths * bound_tenths * variance.den * (weighted * weighted)
    ELSE 10 < bound_tenths

\* UsagePredictor._generate_forecasts; the projected cost is the float
\* avg_cost * forecast_days * trend_factor, kept as its three factors
generate_forecasts(history, trends, forecast_days) ==
    IF Len(history) < 7
    THEN [sessions |-> 0, output_tokens |-> 0,
          cost |-> [avg |-> Frac(0, 1), days |-> forecast_days, factor |-> Frac(1, 1)],
          confidence |-> "low"]
    ELSE LET recent == SubSeq(history, Len(history) - 6, Len(history))
             total_weight == SumSeq(SubSeq(weights, 1, Len(recent)))
             sessions_weighted == SumSeq([j \in 1..7 |-> recent[j].sessions * weights[j]])
             tokens_weighted == SumSeq([j \in 1..7 |-> recent[j].output_tokens * weights[j]])
             cost_weighted == SumSeq([j \in 1..7 |-> recent[j].cost * weights[j]])
             trend_factor == IF trends.direction \in {"increasing", "decreasing"}
                             THEN TrendFactor(trends.tokens_change_pct)
                             ELSE Frac(1, 1)
             token_variance == calculate_variance([j \in 1..7 |-> recent[j].output_tokens])
         IN  [sessions |-> (sessions_weighted * forecast_days * trend_factor.num)
                               \div (total_weight * trend_factor.den),
              output_tokens |-> (tokens_weighted * forecast_days * trend_factor.num)
                                    \div (total_weight * trend_factor.den),
              cost |-> [avg |-> Frac(cost_weighted, total_weight), days |-> forecast_days,
                        factor |-> trend_factor],
              confidence |-> IF CvBelow(token_variance, tokens_weighted, total_weight, 3)
                             THEN "high"
                             ELSE IF CvBelow(token_variance, tokens_weighted, total_weight, 6)
                             THEN "medium"
                             ELSE "low"]

\* forecasts["cost"] > 100 (dollars; costs are in millionths of a dollar):
\* factor > 100000000 / (avg * days)
CostAbove100(cost) ==
    /\ cost.avg.num > 0
    /\ FracLt(Frac(100000000 * cost.avg.den, cost.avg.num * cost.days), cost.factor)

\* UsagePredictor._generate_recommendations; n: the number formatted in
PredictorRecommendations(trends, forecasts) ==
    (IF trends.direction = "increasing" /\ trends.tokens_change_pct.num
                                              > 20 * trends.tokens_change_pct.den
     THEN <<Recommendation("Usage trending up.", trends.tokens_change_pct)>>
     ELSE IF trends.direction = "decreasing"
     THEN <<Recommendation("Usage trending down.", trends.tokens_change_pct)>>
     ELSE <<Recommendation("Usage patterns are stable.", 0)>>)
    \o (IF CostAbove100(forecasts.cost)
        THEN <<Recommendation("Projected weekly cost.", forecasts.cost)>> ELSE <<>>)
    \o (IF forecasts.confidence = "low"
        THEN <<Recommendation("Forecast confidence is low.", 0)>> ELSE <<>>)

\* the dict UsagePredictor.analyze returns; forecast_end is the day
\* forecast_days after the day of the call
PredictorDocument(target_dates, daily_stats, forecast_days) ==
    LET history == HistoryOf(daily_stats)
        trends == calculate_trends(history)
        forecasts == generate_forecasts(history, trends, forecast_days)
    IN  [period |-> [historical_start |-> target_dates[Len(target_dates)],
                     historical_end |-> target_dates[1],
                     forecast_end |-> [days_from_now |-> forecast_days]],
         historical |->
             [days_analyzed |-> Len(history),
              total_sessions |-> SessionsOf(history),
              total_output_tokens |-> TokensOf(history),
              total_cost |-> CostOf(history),
              daily_average |->
                  IF history # <<>>
                  THEN [sessions |-> Frac(SessionsOf(history), Len(history)),
                        output_tokens |-> Frac(TokensOf(history), Len(history)),
                        cost |-> Frac(CostOf(history), Len(history))]
                  ELSE [sessions |-> Frac(0, 1), output_tokens |-> Frac(0, 1),
                        cost |-> Frac(0, 1)]],
         trends |-> trends,
         forecast |-> [days |-> forecast_days,
                       projected_sessions |-> forecasts.sessions,
                       projected_output_tokens |-> forecasts.output_tokens,
                       projected_cost |-> forecasts.cost,
                       confidence |-> forecasts.confidence],
         daily_history |-> SubSeq(history, Len(history) - Min(Len(history), 14) + 1, Len(history)),
         recommendations |-> PredictorRecommendations(trends, forecasts)]

\* the day of the k-th session of a scan: the files are not in the order of
\* their dates, and the session after MaxDays sessions is of the day of the first
DayIndex(k) == ((k * 3) % MaxDays) + 1

TokenChoices == {8, 20}

ForecastDays == {1, 7}

\* the k-th session of a scan, with its output tokens
PredictorSession(k, output_tokens) ==
    [SessionData(<<"s", DateSymbols[k]>>, "p1") EXCEPT
        !.input_tokens = 1,
        !.output_tokens = output_tokens,
        !.cost = calculate_cost("claude-3-5-sonnet", 1, output_tokens, 0, 0),
        !.timestamps = << <<DateSymbols[DayIndex(k)], "T", "1">> >>]

PredictorSessionLists ==
    UNION {{[k \in 1..len |-> PredictorSession(k, t[k])] : t \in [1..len -> TokenChoices]} :
           len \in 0..(MaxDays + 1)}

\* get_date_range(days_back): the dates from the newest to the oldest
PredictorDates == [j \in 1..MaxDays |-> <<DateSymbols[MaxDays + 1 - j]>>]

InitPredictor ==
    /\ QuietLoader
    /\ \E sessions \in PredictorSessionLists :
          probe = [sessions |-> sessions, pos |-> 0, daily_stats |-> <<>>,
                   returned |-> FALSE, doc |-> <<>>]

\* one pass of the loop of UsagePredictor.analyze
PredictorConsume ==
    /\ ~probe.returned
    /\ probe.pos < Len(probe.sessions)
    /\ probe' = [probe EXCEPT !.pos = @ + 1,
                              !.daily_stats = AddToDay(@, probe.sessions[probe.pos + 1])]
    /\ OnlyProbe

\* the rest of UsagePredictor.analyze, called with forecast_days
PredictorFinish ==
    /\ ~probe.returned
    /\ probe.pos = Len(probe.sessions)
    /\ \E forecast_days \in ForecastDays :
          probe' = [probe EXCEPT
                       !.returned = TRUE,
                       !.doc = PredictorDocument(PredictorDates, probe.daily_stats,
                                                 forecast_days)]
    /\ OnlyProbe

NextPredictor == PredictorConsume \/ PredictorFinish

SpecPredictor == InitPredictor /\ [][NextPredictor]_vars

----------------------------------------------------------------------------
(* C17 *)

\* the day buckets of the sessions the analysis consumed
DayBuckets == {DayOf(probe.sessions[k]) : k \in 1..probe.pos}

\* C17: an analysis that returned over fewer than 7 day buckets reports the
\* direction "insufficient_data", the three change percentages 0, confidence
\* "low" and projected sessions, output tokens and cost 0, for every number of
\* forecast days.
C17_ShortHistoryInsufficient ==
    (probe.returned /\ Cardinality(DayBuckets) < 7) =>
        /\ probe.doc.trends.direction = "insufficient_data"
        /\ probe.doc.trends.sessions_change_pct.num = 0
        /\ probe.doc.trends.tokens_change_pct.num = 0
        /\ probe.doc.trends.cost_change_pct.num = 0
        /\ probe.doc.forecast.confidence = "low"
        /\ probe.doc.forecast.projected_sessions = 0
        /\ probe.doc.forecast.projected_output_tokens = 0
        /\ probe.doc.forecast.projected_cost.avg.num = 0

\* a returned 7-day forecast over six sessions on six different days
C17_Witness ==
    /\ probe.returned
    /\ probe.pos = 6
    /\ Cardinality(DayBuckets) = 6
    /\ probe.doc.forecast.days = 7
    /\ probe.doc.historical.total_output_tokens > 0
    /\ probe.doc.trends.direction = "insufficient_data"

----------------------------------------------------------------------------
(* InsightsReport.generate_full_report (report.py) over a data root that   *)
(* may not exist.  Every analyzer owns a LogLoader on the same data path   *)
(* and scans it in its own call of analyze.                                 *)

\* the data path does not exist
MissingRoot == [exists |-> FALSE, listing |-> <<>>]

ExistingRoot(listing) == [exists |-> TRUE, listing |-> listing]

\* iter_sessions without its test of the data path: iterdir() raises
\* FileNotFoundError on a path that does not exist
iter_sessions_at_unguarded(root, target_dates) ==
    IF ~root.exists
    THEN [sessions |-> <<>>, warned |-> FALSE, raised |-> TRUE]
    ELSE [sessions |-> iter_sessions(root.listing, target_dates, "none"),
          warned |-> FALSE, raised |-> FALSE]

\* list(loader.iter_sessions(target_dates)) on a fresh loader whose data path is
\* root: the sessions, whether the warning was logged, whether an exception left
\* the generator
iter_sessions_at(root, target_dates) ==
    IF ~root.exists
    THEN [sessions |-> <<>>, warned |-> TRUE, raised |-> FALSE]
    ELSE [sessions |-> iter_sessions(root.listing, target_dates, "none"),
          warned |-> FALSE, raised |-> FALSE]

\* the loop of ToolAnalyzer.analyze from its k-th session on
RECURSIVE AnalyzeToolLoop(_, _, _, _)
AnalyzeToolLoop(sessions, k, totals, self) ==
    IF k > Len(sessions) THEN [totals |-> totals, self |-> self]
    ELSE AnalyzeToolLoop(sessions, k + 1, AddToTotals(totals, sessions[k]),
                  process_session(self, sessions[k], k))

\* the loop of CacheAnalyzer.analyze
RECURSIVE AnalyzeCacheLoop(_, _, _)
AnalyzeCacheLoop(sessions, k, locals) ==
    IF k > Len(sessions) THEN locals
    ELSE AnalyzeCacheLoop(sessions, k + 1, CacheFold(locals, sessions[k]))

\* the loop of AnomalyDetector.analyze
RECURSIVE AnalyzeAnomalyLoop(_, _, _, _)
AnalyzeAnomalyLoop(sessions, k, a, found) ==
    IF k > Len(sessions) THEN [a |-> a, found |-> found]
    ELSE LET session_anomalies == detect_session_anomalies(sessions[k])
         IN  AnalyzeAnomalyLoop(sessions, k + 1,
                 IF session_anomalies # <<>>
                 THEN [a EXCEPT !.total_sessions = @ + 1,
                                !.affected_sessions = @ + 1,
                                !.projects_affected = @ \cup {sessions[k].project},
                                !.total_loop_tokens = @ + sessions[k].output_tokens]
                 ELSE [a EXCEPT !.total_sessions = @ + 1],
                 found \o session_anomalies)

\* the loop of SkillAnalyzer.analyze
RECURSIVE AnalyzeSkillLoop(_, _, _)
AnalyzeSkillLoop(sessions, k, locals) ==
    IF k > Len(sessions) THEN locals
    ELSE AnalyzeSkillLoop(sessions, k + 1, SkillFold(locals, sessions[k], k))

\* the loop of UsagePredictor.analyze
RECURSIVE AnalyzePredictorLoop(_, _, _)
AnalyzePredictorLoop(sessions, k, daily_stats) ==
    IF k > Len(sessions) THEN daily_stats
    ELSE AnalyzePredictorLoop(sessions, k + 1, AddToDay(daily_stats, sessions[k]))

\* the loop of ROIAnalyzer.analyze
RECURSIVE AnalyzeROILoop(_, _, _, _)
AnalyzeROILoop(sessions, k, totals, self) ==
    IF k > Len(sessions) THEN [totals |-> totals, self |-> self]
    ELSE AnalyzeROILoop(sessions, k + 1, AddToTotals(totals, sessions[k]),
                 classify_session(self, sessions[k], k))

\* lines of the data roots of the report: two entries of the target date, one
\* of another date
ReportLines == {LineA, LineN, LineO}

ReportRoots == {MissingRoot} \cup {ExistingRoot(listing) : listing \in DataRoots(ReportLines)}

\* get_date_range(max(30, days_back)): the dates of the predictor include the
\* dates of the other analyzers
ReportPredictorDates == {PredictorDates[j] : j \in 1..Len(PredictorDates)}

\* a report before generate_full_report: step counts the analyzers that have
\* returned, scans lists what each scan yielded and logged
InitReport ==
    /\ QuietLoader
    /\ \E root \in ReportRoots :
          probe = [root |-> root, step |-> 0, failed |-> FALSE, scans |-> <<>>,
                   tools |-> <<>>, cache |-> <<>>, anomalies |-> <<>>,
                   skills |-> <<>>, predictions |-> <<>>, roi |-> <<>>]

\* an exception of the scan leaves analyze and generate_full_report
ReportRaised(scan) ==
    probe' = [probe EXCEPT !.failed = TRUE, !.scans = Append(@, scan)]

\* "tools": self.tool_analyzer.analyze(days_back, target_date)
ReportTools ==
    /\ probe.step = 0 /\ ~probe.failed
    /\ LET scan == iter_sessions_at(probe.root, TargetDates)
           loop == AnalyzeToolLoop(scan.sessions, 1, TotalsLocals, ToolAnalyzerReset)
       IN  IF scan.raised THEN ReportRaised(scan)
           ELSE probe' = [probe EXCEPT
                             !.step = 1, !.scans = Append(@, scan),
                             !.tools = ToolDocument(TargetDateList, loop.totals, loop.self)]
    /\ OnlyProbe

\* "cache": self.cache_analyzer.analyze(days_back, target_date)
ReportCache ==
    /\ probe.step = 1 /\ ~probe.failed
    /\ LET scan == iter_sessions_at(probe.root, TargetDates)
       IN  IF scan.raised THEN ReportRaised(scan)
           ELSE probe' = [probe EXCEPT
                             !.step = 2, !.scans = Append(@, scan),
                             !.cache = CacheDocument(TargetDateList,
                                           AnalyzeCacheLoop(scan.sessions, 1, CacheLocals))]
    /\ OnlyProbe

\* "anomalies": self.anomaly_detector.analyze(days_back, target_date)
ReportAnomalies ==
    /\ probe.step = 2 /\ ~probe.failed
    /\ LET scan == iter_sessions_at(probe.root, TargetDates)
           loop == AnalyzeAnomalyLoop(scan.sessions, 1, IdleAnalysis, <<>>)
       IN  IF scan.raised THEN ReportRaised(scan)
           ELSE \E projects_list \in ListsOfSet(loop.a.projects_affected) :
                   probe' = [probe EXCEPT
                                !.step = 3, !.scans = Append(@, scan),
                                !.anomalies = ResultDocument(TargetDateList, loop.a,
                                                  SortAnomalies(loop.found), projects_list)]
    /\ OnlyProbe

\* "skills": self.skill_analyzer.analyze(days_back, target_date)
ReportSkills ==
    /\ probe.step = 3 /\ ~probe.failed
    /\ LET scan == iter_sessions_at(probe.root, TargetDates)
           locals == AnalyzeSkillLoop(scan.sessions, 1, SkillLocals)
       IN  IF scan.raised THEN ReportRaised(scan)
           ELSE \E orders \in ProjectOrders(locals.skills) :
                   probe' = [probe EXCEPT
                                !.step = 4, !.scans = Append(@, scan),
                                !.skills = SkillDocument(TargetDateList, locals, orders)]
    /\ OnlyProbe

\* "predictions": self.predictor.analyze(days_back=max(30, days_back)), with the
\* default forecast_days = 7
ReportPredictions ==
    /\ probe.step = 4 /\ ~probe.failed
    /\ LET scan == iter_sessions_at(probe.root, ReportPredictorDates)
       IN  IF scan.raised THEN ReportRaised(scan)
           ELSE probe' = [probe EXCEPT
                             !.step = 5, !.scans = Append(@, scan),
                             !.predictions =
                                 PredictorDocument(PredictorDates,
                                     AnalyzePredictorLoop(scan.sessions, 1, <<>>), 7)]
    /\ OnlyProbe

\* "roi": self.roi_analyzer.analyze(days_back, target_date)
ReportROI ==
    /\ probe.step = 5 /\ ~probe.failed
    /\ LET scan == iter_sessions_at(probe.root, TargetDates)
           loop == AnalyzeROILoop(scan.sessions, 1, TotalsLocals, ROIAnalyzerReset)
       IN  IF scan.raised THEN ReportRaised(scan)
           ELSE probe' = [probe EXCEPT
                             !.step = 6, !.scans = Append(@, scan),
                             !.roi = ROIDocument(TargetDateList, loop.totals, loop.self)]
    /\ OnlyProbe

\* the dict display of generate_full_report, evaluated in order
NextReport ==
    \/ ReportTools
    \/ ReportCache
    \/ ReportAnomalies
    \/ ReportSkills
    \/ ReportPredictions
    \/ ReportROI

SpecReport == InitReport /\ [][NextReport]_vars

----------------------------------------------------------------------------
(* C18 *)

\* C18: when the data root does not exist, every scan yields no session and
\* raises nothing, and the document each analyzer returned reports zero
\* sessions and zeroed totals.
C18_MissingRootZeroedDocuments ==
    ~probe.root.exists =>
        /\ ~probe.failed
        /\ Len(probe.scans) = probe.step
        /\ \A j \in 1..Len(probe.scans) :
              probe.scans[j].sessions = <<>> /\ ~probe.scans[j].raised
        /\ probe.step >= 1 =>
              probe.tools.summary = [total_sessions |-> 0, total_output_tokens |-> 0,
                                     total_cost |-> 0]
        /\ probe.step >= 2 =>
              /\ probe.cache.overall.sessions = 0
              /\ probe.cache.overall.input_tokens = 0
              /\ probe.cache.overall.output_tokens = 0
              /\ probe.cache.overall.cache_read = 0
              /\ probe.cache.overall.cache_create = 0
        /\ probe.step >= 3 =>
              /\ probe.anomalies.summary.total_sessions = 0
              /\ probe.anomalies.summary.sessions_with_anomalies = 0
              /\ probe.anomalies.summary.total_anomalies = 0
              /\ probe.anomalies.summary.total_loop_tokens = 0
        /\ probe.step >= 4 =>
              /\ probe.skills.summary.sessions_with_skills = 0
              /\ probe.skills.summary.total_invocations = 0
              /\ probe.skills.summary.total_tokens = 0
        /\ probe.step >= 5 =>
              /\ probe.predictions.historical.total_sessions = 0
              /\ probe.predictions.historical.total_output_tokens = 0
              /\ probe.predictions.historical.total_cost = 0
        /\ probe.step >= 6 =>
              /\ probe.roi.summary.total_sessions = 0
              /\ probe.roi.summary.total_output_tokens = 0
              /\ probe.roi.summary.total_cost = 0

\* a report over a data root that does not exist, all six analyzers returned
C18_Witness ==
    /\ ~probe.root.exists
    /\ probe.step = 6
    /\ Len(probe.scans) = 6
    /\ \A j \in 1..6 : probe.scans[j].warned

----------------------------------------------------------------------------
(* C19 *)

\* the 7 most recent day buckets of a returned document
RecentOf(doc) ==
    SubSeq(doc.daily_history, Len(doc.daily_history) - 6, Len(doc.daily_history))

\* the trend factor of the claim, 1 + (tokens_change_pct / 100 x 0.5)
ClaimedFactor(doc) ==
    Frac(200 * doc.trends.tokens_change_pct.den + doc.trends.tokens_change_pct.num,
         200 * doc.trends.tokens_change_pct.den)

\* C19 as stated: an analysis that returned over at least 7 day buckets projects
\* the integer part of (weighted daily average x forecast days x
\* (1 + tokens_change_pct / 100 x 0.5)) for sessions and output tokens, and the
\* cost with that same factor, whatever tokens_change_pct is.
C19_TrendFactorAlwaysApplied ==
    (probe.returned /\ Cardinality(DayBuckets) >= 7) =>
        LET doc == probe.doc
            factor == ClaimedFactor(doc)
            sessions_weighted == SumSeq([j \in 1..7 |-> RecentOf(doc)[j].sessions * weights[j]])
            tokens_weighted ==
                SumSeq([j \in 1..7 |-> RecentOf(doc)[j].output_tokens * weights[j]])
        IN  /\ doc.forecast.projected_sessions
                  = (sessions_weighted * doc.forecast.days * factor.num) \div (16 * factor.den)
            /\ doc.forecast.projected_output_tokens
                  = (tokens_weighted * doc.forecast.days * factor.num) \div (16 * factor.den)
            /\ FracLeq(doc.forecast.projected_cost.factor, factor)
            /\ FracLeq(factor, doc.forecast.projected_cost.factor)

\* C19: an analysis that returned over at least 7 day buckets projects the
\* integer part of (weighted daily average x forecast days x factor) for
\* sessions and output tokens, and the cost with that same factor, where the
\* factor is 1 + (tokens_change_pct / 100 x 0.5) when the direction is
\* "increasing" or "decreasing" and 1 when the direction is "stable".
C19_TrendFactorWhenNotStable ==
    (probe.returned /\ Cardinality(DayBuckets) >= 7) =>
        LET doc == probe.doc
            factor == IF doc.trends.direction = "stable" THEN Frac(1, 1)
                      ELSE ClaimedFactor(doc)
            sessions_weighted == SumSeq([j \in 1..7 |-> RecentOf(doc)[j].sessions * weights[j]])
            tokens_weighted ==
                SumSeq([j \in 1..7 |-> RecentOf(doc)[j].output_tokens * weights[j]])
        IN  /\ doc.forecast.projected_sessions
                  = (sessions_weighted * doc.forecast.days * factor.num) \div (16 * factor.den)
            /\ doc.forecast.projected_output_tokens
                  = (tokens_weighted * doc.forecast.days * factor.num) \div (16 * factor.den)
            /\ FracLeq(doc.forecast.projected_cost.factor, factor)
            /\ FracLeq(factor, doc.forecast.projected_cost.factor)

\* a returned 7-day forecast over 7 day buckets whose trend is "stable" with a
\* tokens_change_pct other than 0
C19_Witness ==
    /\ probe.returned
    /\ Cardinality(DayBuckets) >= 7
    /\ probe.doc.forecast.days = 7
    /\ probe.doc.trends.direction = "stable"
    /\ probe.doc.trends.tokens_change_pct.num # 0
    /\ probe.doc.forecast.projected_output_tokens > 0

----------------------------------------------------------------------------
(* C20 *)

\* the confidence of the claim: the coefficient of variation is
\* sqrt(variance) / mean of the 7 values, so its square is
\* (7 * sum(v^2) - sum(v)^2) / sum(v)^2
ClaimedConfidence(values) ==
    LET spread == 7 * SumSeq([j \in 1..7 |-> values[j] * values[j]])
                      - SumSeq(values) * SumSeq(values)
        square == SumSeq(values) * SumSeq(values)
    IN  IF 100 * spread < 9 * square THEN "high"
        ELSE IF 100 * spread < 36 * square THEN "medium"
        ELSE "low"

\* C20 as stated: an analysis that returned over at least 7 day buckets reports
\* the confidence decided by sqrt(variance) / mean of the output tokens of the 7
\* most recent buckets: "high" below 0.3, "medium" below 0.6, else "low".
C20_ConfidenceByCoefficientOfVariation ==
    (probe.returned /\ Cardinality(DayBuckets) >= 7) =>
        probe.doc.forecast.confidence
            = ClaimedConfidence([j \in 1..7 |-> RecentOf(probe.doc)[j].output_tokens])

----------------------------------------------------------------------------
(* C21 *)

\* a user entry that carries the composite key of LineA
LineUK ==
    EntryLine(InDate, "user", NoStr, <<"r1">>, TRUE,
              Message(<<"m1">>, Usage(0, 0, 0, 0), ContentStr(<<"h", "i">>)))

\* entries of one key: off the target dates, rejected by the predicate
\* "assistant_only", accepted; and an entry without a key
DropLines == {LineO, LineUK, LineA, LineN}

InitDrop ==
    /\ InitLoader(DropLines)
    /\ entry_filter \in EntryFilters

\* iter_sessions called NumCalls times on one loader, over entries that the date
\* filter or the predicate drops
SpecDrop == InitDrop /\ [][Next]_vars

\* a line read earlier in call i carries the key of e and was dropped by the
\* date filter or the predicate
KeySeenDropped(i, e) ==
    \E n \in 1..Len(log[i]) :
        /\ Keyed(LineAt(log[i][n]))
        /\ ~PassesFilters(LineAt(log[i][n]))
        /\ create_unique_hash(LineAt(log[i][n])) = create_unique_hash(e)

\* C21: an entry whose timestamp contains no target date, or that the predicate
\* rejects, leaves the session (counters, mappings, timestamps, first_msg) and
\* the deduplication set as they were; an accepted entry whose key was carried
\* only by such dropped entries before it is counted.
C21_DroppedBeforeAccounting ==
    [][\A i \in Calls :
          /\ (Reads(i) /\ CurrentLine(i).kind = "entry" /\ ~PassesFilters(CurrentLine(i))) =>
                 (SessionUntouched(i) /\ hashes' = hashes)
          /\ (Reads(i) /\ Keyed(CurrentLine(i)) /\ PassesFilters(CurrentLine(i))
                /\ KeySeenDropped(i, CurrentLine(i))
                /\ ~KeySeenPassing(i, CurrentLine(i))) =>
                 SessionCounts(i, CurrentLine(i))]_vars

\* the predicate rejected a keyed entry, and a later entry of the same key was
\* counted into the session being read
C21_Witness ==
    \E i \in Calls :
        /\ gen[i].pc = "read"
        /\ entry_filter = "assistant_only"
        /\ \E n, m \in 1..Len(log[i]) :
              /\ m < n
              /\ log[i][n].file = gen[i].file
              /\ Keyed(LineAt(log[i][m]))
              /\ InTargetDates(LineAt(log[i][m]).timestamp, TargetDates)
              /\ Rejected(entry_filter, LineAt(log[i][m]))
              /\ create_unique_hash(LineAt(log[i][m])) = create_unique_hash(LineAt(log[i][n]))
              /\ Survived(i, n)
              /\ gen[i].session.output_tokens > 0
              /\ create_unique_hash(LineAt(log[i][n])) \in hashes

----------------------------------------------------------------------------
(* C22 *)

\* a user entry without a message
LineU0 == EntryLine(InDate, "user", NoStr, NoStr, FALSE, NoMessage)

\* a user entry whose content is a list: a tool item, then two text parts
LineUL ==
    EntryLine(InDate, "user", NoStr, NoStr, TRUE,
              Message(NoStr, Usage(0, 0, 0, 0),
                      ContentList(<<ToolUse(Bash, "", ""), TextPart(<<"y", "o">>),
                                    TextPart(<<"n", "o">>)>>)))

\* a user entry whose text has 201 characters
LineLong ==
    EntryLine(InDate, "user", NoStr, NoStr, TRUE,
              Message(NoStr, Usage(0, 0, 0, 0), ContentStr([j \in 1..201 |-> "x"])))

FirstMsgLines == {LineU0, LineU, LineUL, LineLong, LineN}

InitFirstMsg ==
    /\ InitLoader(FirstMsgLines)
    /\ entry_filter = "none"

\* iter_sessions called NumCalls times on one loader, over user entries with a
\* text, with a list of parts and without content
SpecFirstMsg == InitFirstMsg /\ [][Next]_vars

\* the entry is a user entry that carries text: a plain string, or a list with
\* a text part
CarriesText(e) ==
    /\ e.kind = "entry" /\ e.type = "user" /\ e.has_message
    /\ \/ e.message.content.shape = "str"
       \/ /\ e.message.content.shape = "list"
          /\ \E j \in 1..Len(e.message.content.items) : e.message.content.items[j].type = "text"

\* the text it carries
TextOf(e) ==
    IF e.message.content.shape = "str" THEN e.message.content.text
    ELSE Head(SelectSeq(e.message.content.items, LAMBDA c : c.type = "text")).text

\* the lines call i has read in the file it is reading that survived and carry
\* a user's text
TextCarriers(i) ==
    {n \in 1..Len(log[i]) :
        log[i][n].file = gen[i].file /\ Survived(i, n) /\ CarriesText(LineAt(log[i][n]))}

\* C22 as stated: once first_msg of the session being read holds a value no
\* later entry changes it, and a first_msg that is set is the first 200
\* characters of the text of the first surviving user entry that carries text.
C22_FirstMsgOfFirstTextEntry ==
    /\ [][\A i \in Calls :
             (Reads(i) /\ gen'[i].pc = "read" /\ ~gen[i].session.first_msg.is_none) =>
                 gen'[i].session.first_msg = gen[i].session.first_msg]_vars
    /\ [](\A i \in Calls :
             (gen[i].pc = "read" /\ ~gen[i].session.first_msg.is_none) =>
                 /\ TextCarriers(i) # {}
                 /\ LET n == CHOOSE n \in TextCarriers(i) : \A m \in TextCarriers(i) : n <= m
                    IN  gen[i].session.first_msg.text
                            = StrPrefix(TextOf(LineAt(log[i][n])), 200))

----------------------------------------------------------------------------
(* C23 *)

\* entries with a usage, with a message that has none (read as zeros) and
\* without a message
UsageLines == {LineA, LineN, LineU, LineU0}

InitUsage ==
    /\ InitLoader(UsageLines)
    /\ entry_filter = "none"

\* iter_sessions called NumCalls times on one loader, over entries with and
\* without a usage
SpecUsage == InitUsage /\ [][Next]_vars

\* the five counters of a session
Counters(s) == <<s.input_tokens, s.output_tokens, s.cache_read, s.cache_create, s.cost>>

\* the entry has no usage substructure: no message, or a message whose usage is
\* read as zeros
WithoutUsage(e) == ~e.has_message \/ e.message.usage = Usage(0, 0, 0, 0)

\* C23: while the entries of a file are folded, the five counters of its
\* session are >= 0 and none decreases from one step to the next; a surviving
\* entry without a usage leaves the five as they were and appends its timestamp.
C23_CountersMonotone ==
    [][\A i \in Calls :
          (Reads(i) /\ gen'[i].pc = "read") =>
              /\ \A j \in 1..5 :
                    /\ Counters(gen[i].session)[j] >= 0
                    /\ Counters(gen'[i].session)[j] >= Counters(gen[i].session)[j]
              /\ (/\ PassesFilters(CurrentLine(i))
                  /\ ~(Keyed(CurrentLine(i)) /\ KeySeenPassing(i, CurrentLine(i)))
                  /\ WithoutUsage(CurrentLine(i))) =>
                     /\ Counters(gen'[i].session) = Counters(gen[i].session)
                     /\ gen'[i].session.timestamps
                            = Append(gen[i].session.timestamps, CurrentLine(i).timestamp)]_vars

\* a session with counted tokens has taken in an entry without a message: its
\* timestamp is the last of the session, the counters are still those of before
C23_Witness ==
    \E i \in Calls :
        /\ gen[i].pc = "read"
        /\ gen[i].session.output_tokens > 0
        /\ gen[i].session.cache_read > 0
        /\ Len(gen[i].session.timestamps) >= 2
        /\ Len(log[i]) >= 2
        /\ log[i][Len(log[i])].file = gen[i].file
        /\ ~LineAt(log[i][Len(log[i])]).has_message
        /\ Survived(i, Len(log[i]))

----------------------------------------------------------------------------
(* C24 *)

\* an entry with a request id and no message id
LineR ==
    EntryLine(InDate, "assistant", NoStr, <<"r1">>, TRUE,
              Message(NoStr, Usage(0, 3, 0, 0), ContentList(<<>>)))

\* entries without a request id, without a message id, without both, and one
\* with both
UnkeyedLines == {LineN, LineR, LineU0, LineA}

InitUnkeyed ==
    /\ InitLoader(UnkeyedLines)
    /\ entry_filter \in EntryFilters

\* iter_sessions called NumCalls times on one loader, over entries that lack an id
SpecUnkeyed == InitUnkeyed /\ [][Next]_vars

\* the entry lacks the message id or the request id
LacksAnId(e) ==
    \/ e.message_id = NoStr /\ (~e.has_message \/ e.message.id = NoStr)
    \/ e.requestId = NoStr /\ e.request_id = NoStr

\* C24: an entry that lacks the message id or the request id and passes the date
\* filter and the predicate is folded, whatever was read before it, and leaves
\* the deduplication set as it was.
C24_UnkeyedNeverDeduplicated ==
    [][\A i \in Calls :
          (Reads(i) /\ CurrentLine(i).kind = "entry" /\ LacksAnId(CurrentLine(i))
               /\ PassesFilters(CurrentLine(i))) =>
              (SessionCounts(i, CurrentLine(i)) /\ hashes' = hashes)]_vars

\* the session being read has folded two identical entries that lack an id, one
\* right after the other
C24_Witness ==
    \E i \in Calls :
        /\ gen[i].pc = "read"
        /\ Len(log[i]) >= 2
        /\ log[i][Len(log[i])].file = gen[i].file
        /\ log[i][Len(log[i]) - 1].file = gen[i].file
        /\ LineAt(log[i][Len(log[i])]) = LineAt(log[i][Len(log[i]) - 1])
        /\ LacksAnId(LineAt(log[i][Len(log[i])]))
        /\ LineAt(log[i][Len(log[i])]).message.id # NoStr
        /\ Len(gen[i].session.timestamps) >= 2
        /\ gen[i].session.output_tokens
               = 2 * LineAt(log[i][Len(log[i])]).message.usage.output_tokens
        /\ gen[i].session.output_tokens > 0

----------------------------------------------------------------------------
(* analyze called again and again on the same AnomalyDetector, ToolAnalyzer, *)
(* SkillAnalyzer and ROIAnalyzer: the attributes of an instance outlive a   *)
(* call, the locals of analyze do not.                                      *)

\* a _reset that leaves the attributes as the call before left them
ToolAnalyzer_reset_keep(self) == self

\* ToolAnalyzer._reset
ToolAnalyzer_reset(self) == ToolAnalyzerReset

\* ROIAnalyzer._reset
ROIAnalyzer_reset(self) == ROIAnalyzerReset

\* what a scan yields: nothing, or one session with a tool loop, an MCP tool
\* and two skill calls
RepeatSessionLists ==
    { <<>>,
      <<AttributionSession(1, <<[k |-> Pipedrive, v |-> 3], [k |-> <<"Skill">>, v |-> 2],
                                [k |-> <<"LS">>, v |-> 49]>>, 70)>> }

\* the instances after __init__; scans[n]: what the n-th scan of each instance
\* yields; n: the calls of analyze that have returned; doc: what the last returned
InitRepeat ==
    /\ QuietLoader
    /\ \E scans \in [1..NumCalls -> RepeatSessionLists] :
          probe = [scans |-> scans,
                   anomaly |-> [n |-> 0, anomalies |-> <<>>, doc |-> <<>>],
                   tool |-> [n |-> 0, self |-> ToolAnalyzerReset, doc |-> <<>>],
                   skill |-> [n |-> 0, skills |-> <<>>, doc |-> <<>>],
                   roi |-> [n |-> 0, self |-> ROIAnalyzerReset, doc |-> <<>>]]

\* AnomalyDetector.analyze
RepeatAnomaly ==
    /\ probe.anomaly.n < NumCalls
    /\ LET loop == AnalyzeAnomalyLoop(probe.scans[probe.anomaly.n + 1], 1, IdleAnalysis, <<>>)
       IN  \E projects_list \in ListsOfSet(loop.a.projects_affected) :
              probe' = [probe EXCEPT
                           !.anomaly.n = @ + 1,
                           !.anomaly.anomalies = SortAnomalies(loop.found),
                           !.anomaly.doc = ResultDocument(TargetDateList, loop.a,
                                               SortAnomalies(loop.found), projects_list)]
    /\ OnlyProbe

\* ToolAnalyzer.analyze
RepeatTool ==
    /\ probe.tool.n < NumCalls
    /\ LET loop == AnalyzeToolLoop(probe.scans[probe.tool.n + 1], 1, TotalsLocals,
                                   ToolAnalyzer_reset(probe.tool.self))
       IN  probe' = [probe EXCEPT
                        !.tool.n = @ + 1,
                        !.tool.self = loop.self,
                        !.tool.doc = ToolDocument(TargetDateList, loop.totals, loop.self)]
    /\ OnlyProbe

\* SkillAnalyzer.analyze
RepeatSkill ==
    /\ probe.skill.n < NumCalls
    /\ LET locals == AnalyzeSkillLoop(probe.scans[probe.skill.n + 1], 1, SkillLocals)
       IN  \E orders \in ProjectOrders(locals.skills) :
              probe' = [probe EXCEPT
                           !.skill.n = @ + 1,
                           !.skill.skills = locals.skills,
                           !.skill.doc = SkillDocument(TargetDateList, locals, orders)]
    /\ OnlyProbe

\* ROIAnalyzer.analyze
RepeatROI ==
    /\ probe.roi.n < NumCalls
    /\ LET loop == AnalyzeROILoop(probe.scans[probe.roi.n + 1], 1, TotalsLocals,
                                  ROIAnalyzer_reset(probe.roi.self))
       IN  probe' = [probe EXCEPT
                        !.roi.n = @ + 1,
                        !.roi.self = loop.self,
                        !.roi.doc = ROIDocument(TargetDateList, loop.totals, loop.self)]
    /\ OnlyProbe

NextRepeat ==
    \/ RepeatAnomaly
    \/ RepeatTool
    \/ RepeatSkill
    \/ RepeatROI

SpecRepeat == InitRepeat /\ [][NextRepeat]_vars

----------------------------------------------------------------------------
(* C25 *)

\* the documents an instance fresh from __init__ can return for these sessions
FreshAnomalyDocuments(sessions) ==
    LET loop == AnalyzeAnomalyLoop(sessions, 1, IdleAnalysis, <<>>)
    IN  {ResultDocument(TargetDateList, loop.a, SortAnomalies(loop.found), projects_list) :
            projects_list \in ListsOfSet(loop.a.projects_affected)}

FreshToolDocument(sessions) ==
    LET loop == AnalyzeToolLoop(sessions, 1, TotalsLocals, ToolAnalyzerReset)
    IN  ToolDocument(TargetDateList, loop.totals, loop.self)

FreshSkillDocuments(sessions) ==
    LET locals == AnalyzeSkillLoop(sessions, 1, SkillLocals)
    IN  {SkillDocument(TargetDateList, locals, orders) : orders \in ProjectOrders(locals.skills)}

FreshROIDocument(sessions) ==
    LET loop == AnalyzeROILoop(sessions, 1, TotalsLocals, ROIAnalyzerReset)
    IN  ROIDocument(TargetDateList, loop.totals, loop.self)

\* C25: the document a call of analyze returns is the one an instance that
\* never ran would return for the sessions of that call's scan, for each of the
\* four analyzers and however many calls went before.
C25_NoStateAcrossCalls ==
    /\ probe.anomaly.n >= 1 =>
          /\ probe.anomaly.doc \in FreshAnomalyDocuments(probe.scans[probe.anomaly.n])
          /\ probe.anomaly.anomalies
                 = SortAnomalies(AnalyzeAnomalyLoop(probe.scans[probe.anomaly.n], 1,
                                                    IdleAnalysis, <<>>).found)
    /\ probe.tool.n >= 1 => probe.tool.doc = FreshToolDocument(probe.scans[probe.tool.n])
    /\ probe.skill.n >= 1 => probe.skill.doc \in FreshSkillDocuments(probe.scans[probe.skill.n])
    /\ probe.roi.n >= 1 => probe.roi.doc = FreshROIDocument(probe.scans[probe.roi.n])

\* every analyzer has returned twice: first over a session with tools, then
\* over a scan that yields nothing
C25_Witness ==
    /\ probe.scans[1] # <<>>
    /\ probe.scans[2] = <<>>
    /\ probe.anomaly.n = 2 /\ probe.tool.n = 2 /\ probe.skill.n = 2 /\ probe.roi.n = 2
    /\ probe.tool.doc.tools = <<>>
    /\ probe.roi.doc.by_domain = <<>>

----------------------------------------------------------------------------
(* C26 *)

\* ids with the separator of the key in them: message id "a:b" with request id
\* "c", and message id "a" with request id "b:c"
LineC1 ==
    EntryLine(InDate, "assistant", NoStr, <<"c">>, TRUE,
              Message(<<"a", ":", "b">>, Usage(0, 4, 0, 0), ContentList(<<>>)))

LineC2 ==
    EntryLine(InDate, "assistant", NoStr, <<"b", ":", "c">>, TRUE,
              Message(<<"a">>, Usage(0, 5, 0, 0), ContentList(<<>>)))

PairLines == {LineC1, LineC2, LineA, LineN}

InitPairs ==
    /\ InitLoader(PairLines)
    /\ entry_filter \in EntryFilters

\* iter_sessions called NumCalls times on one loader, over entries whose ids
\* hold the separator
SpecPairs == InitPairs /\ [][Next]_vars

\* the (message id, request id) pair of an entry
IdPair(e) ==
    <<StrOr(e.message_id, IF e.has_message THEN e.message.id ELSE NoStr),
      StrOr(e.requestId, e.request_id)>>

\* an accepted line read earlier in call i carries the pair of ids of e
PairSeenPassing(i, e) ==
    \E n \in 1..Len(log[i]) :
        /\ Keyed(LineAt(log[i][n]))
        /\ PassesFilters(LineAt(log[i][n]))
        /\ IdPair(LineAt(log[i][n])) = IdPair(e)

\* C26: an accepted entry that carries both ids is counted unless an accepted
\* entry read earlier in the call carried the same message id and the same
\* request id: entries whose pairs of ids differ never suppress one another.
C26_DifferingPairsNeverCollide ==
    [][\A i \in Calls :
          (Reads(i) /\ CurrentLine(i).kind = "entry" /\ Keyed(CurrentLine(i))
               /\ PassesFilters(CurrentLine(i))
               /\ ~PairSeenPassing(i, CurrentLine(i))) =>
              SessionCounts(i, CurrentLine(i))]_vars

----------------------------------------------------------------------------
(* C27 *)

\* assistant entries without a request id (never deduplicated) whose content
\* holds MCP tools, Skill invocations with and without a skill name, a tool
\* without a name and a text part
LineM ==
    EntryLine(InDate, "assistant", NoStr, NoStr, TRUE,
              Message(<<"m3">>, Usage(0, 1, 0, 0),
                      ContentList(<<ToolUse(<<"mcp__", "pipedrive", "__", "search_deal">>, "", ""),
                                    ToolUse(<<"Skill">>, "commit", ""),
                                    ToolUse(<<"Skill">>, "", ""),
                                    ToolUse(NoStr, "", "/a")>>)))

LineM2 ==
    EntryLine(InDate, "assistant", NoStr, NoStr, TRUE,
              Message(<<"m4">>, Usage(0, 1, 0, 0),
                      ContentList(<<ToolUse(<<"mcp__", "outlook", "__", "read_email">>, "", ""),
                                    TextPart(<<"h", "i">>),
                                    ToolUse(<<"mcp__", "pipedrive", "__", "search_deal">>, "", ""),
                                    ToolUse(<<"Skill">>, "review", "")>>)))

ToolLines == {LineM, LineM2, LineA, LineU}

InitTools ==
    /\ InitLoader(ToolLines)
    /\ entry_filter = "none"

\* iter_sessions called NumCalls times on one loader, over entries with tool calls
SpecTools == InitTools /\ [][Next]_vars

\* the mappings of a session agree with one another
MappingsConsistent(s) ==
    /\ \A j \in 1..Len(s.mcp_calls) :
          /\ Head(s.mcp_calls[j].k) = "mcp__"
          /\ s.mcp_calls[j].v = DictGet(s.tool_calls, s.mcp_calls[j].k, 0)
    /\ \A j \in 1..Len(s.tool_calls) :
          Head(s.tool_calls[j].k) = "mcp__" => s.tool_calls[j].k \in DictKeys(s.mcp_calls)
    /\ SumSeq([j \in 1..Len(s.skill_calls) |-> s.skill_calls[j].v])
           = DictGet(s.tool_calls, <<"Skill">>, 0)

\* C27: in every yielded session every key of mcp_calls starts with 'mcp__' and
\* has the count tool_calls gives it, every 'mcp__' key of tool_calls is a key of
\* mcp_calls, and the skill_calls values add up to tool_calls['Skill'].
C27_MappingsConsistent ==
    \A i \in Calls : \A n \in 1..Len(out[i]) : MappingsConsistent(out[i][n])

\* a session was yielded with two MCP tools, one of them called twice, and
\* three Skill calls under three skill names
C27_Witness ==
    \E i \in Calls : \E n \in 1..Len(out[i]) :
        /\ Len(out[i][n].mcp_calls) = 2
        /\ \E j \in 1..2 : out[i][n].mcp_calls[j].v = 2
        /\ DictGet(out[i][n].tool_calls, <<"Skill">>, 0) = 3
        /\ Len(out[i][n].skill_calls) = 3
        /\ <<"unknown">> \in DictKeys(out[i][n].tool_calls)

----------------------------------------------------------------------------
(* C28 *)

\* a timestamp on the second target date
InDate2 == <<"D2", "T", "1">>

RollupCounters == {0, 3}

\* the k-th session a scan yields: its project alternates, its first
\* timestamp is on one of two target dates
RollupSession(k, ts, r, c) ==
    [CacheSession(k, r, c, k) EXCEPT !.timestamps = <<ts, InDate>>]

RollupSessionLists ==
    UNION {{[k \in 1..len |-> RollupSession(k, t[k][1], t[k][2], t[k][3])] :
               t \in [1..len -> {InDate, InDate2} \X RollupCounters \X RollupCounters]} :
           len \in 0..MaxSessions}

InitRollup ==
    /\ QuietLoader
    /\ \E sessions \in RollupSessionLists :
          probe = [sessions |-> sessions, pos |-> 0, locals |-> CacheLocals,
                   returned |-> FALSE, doc |-> <<>>]

\* CacheAnalyzer.analyze over sessions of two projects and two days
SpecRollup == InitRollup /\ [][NextCache]_vars

\* the five counters of the buckets of a rollup, summed
RollupSum(buckets) ==
    [cache_read |-> SumSeq([j \in 1..Len(buckets) |-> buckets[j].v.cache_read]),
     cache_create |-> SumSeq([j \in 1..Len(buckets) |-> buckets[j].v.cache_create]),
     input_tokens |-> SumSeq([j \in 1..Len(buckets) |-> buckets[j].v.input_tokens]),
     output_tokens |-> SumSeq([j \in 1..Len(buckets) |-> buckets[j].v.output_tokens]),
     sessions |-> SumSeq([j \in 1..Len(buckets) |-> buckets[j].v.sessions])]

CountersOf(st) ==
    [cache_read |-> st.cache_read, cache_create |-> st.cache_create,
     input_tokens |-> st.input_tokens, output_tokens |-> st.output_tokens,
     sessions |-> st.sessions]

\* C28: after every session of the loop, the per-project buckets and the
\* per-day buckets, before any truncation, each add up to the overall cache_read,
\* cache_create, input_tokens, output_tokens and sessions; overall counts every
\* session consumed.
C28_RollupsSumToOverall ==
    /\ RollupSum(probe.locals.by_project) = CountersOf(probe.locals.overall)
    /\ RollupSum(probe.locals.by_day) = CountersOf(probe.locals.overall)
    /\ probe.locals.overall.sessions = probe.pos

\* two sessions of two projects on one day went through the loop
C28_Witness ==
    /\ probe.pos = 2
    /\ Len(probe.locals.by_project) = 2
    /\ Len(probe.locals.by_day) = 1
    /\ probe.locals.by_day[1].v.sessions = 2
    /\ probe.locals.overall.cache_read > 0

----------------------------------------------------------------------------
(* C29 *)

\* an entry whose timestamp holds the target date after ten other characters,
\* "created at" and then the date
LineP ==
    EntryLine(<<"created at", "D1">>, "assistant", NoStr, NoStr, TRUE,
              Message(<<"m5">>, Usage(0, 2, 0, 0), ContentList(<<>>)))

DayLines == {LineA, LineP, LineO}

InitDays ==
    /\ QuietLoader
    /\ \E listing \in DataRoots(DayLines) :
          probe = [root |-> ExistingRoot(listing), step |-> 0, failed |-> FALSE,
                   scans |-> <<>>, tools |-> <<>>, cache |-> <<>>, anomalies |-> <<>>,
                   skills |-> <<>>, predictions |-> <<>>, roi |-> <<>>]

\* the analyzers run over a data root with a timestamp that does not start
\* with its date
SpecDays == InitDays /\ [][NextReport]_vars

\* C29: every key of by_day in the document of CacheAnalyzer is one of its
\* target dates, and every date of the daily history of UsagePredictor is one of
\* the dates of its range.
C29_DayKeysAreTargetDates ==
    /\ probe.step >= 2 =>
          \A j \in 1..Len(probe.cache.by_day) : probe.cache.by_day[j].k \in TargetDates
    /\ probe.step >= 5 =>
          \A j \in 1..Len(probe.predictions.daily_history) :
              probe.predictions.daily_history[j].date \in ReportPredictorDates

----------------------------------------------------------------------------
(* C30 *)

\* the tool calls of the sessions the loop of ToolAnalyzer.analyze consumed
ConsumedToolCalls ==
    SumSeq([k \in 1..probe.tool.pos |-> DictTotal(probe.sessions[k].tool_calls)])

\* C30: after every pass of the loop the operation buckets add up to the tool
\* call counts of the sessions consumed and the bucket 'MCP Calls' is the sum of
\* total_calls over the servers; the returned document reports the same buckets
\* and, in its MCP breakdown, the same total.
C30_OperationBucketsCoverCalls ==
    /\ DictTotal(probe.tool.self.operations) = ConsumedToolCalls
    /\ DictGet(probe.tool.self.operations, "MCP Calls", 0)
           = SumSeq([j \in 1..Len(probe.tool.self.mcps) |->
                        MCPStats_total_calls(probe.tool.self.mcps[j].v)])
    /\ probe.tool.returned =>
          /\ DictTotal(probe.tool.doc.operations) = ConsumedToolCalls
          /\ DictGet(probe.tool.doc.operations, "MCP Calls", 0)
                 = SumSeq([j \in 1..Len(probe.tool.doc.mcps) |->
                              probe.tool.doc.mcps[j].v.total_calls])

\* the analysis returned over two sessions with calls of two MCP servers and
\* of tools of other buckets
C30_Witness ==
    /\ probe.tool.returned
    /\ probe.tool.pos = 2
    /\ Len(probe.tool.doc.mcps) = 2
    /\ DictGet(probe.tool.doc.operations, "MCP Calls", 0) = 23
    /\ DictGet(probe.tool.doc.operations, "Other", 0) = 49
    /\ DictGet(probe.tool.doc.operations, "Shell Commands", 0) = 8

====
